---- MODULE Spec2Model ----
(***************************************************************************)
(* A model of synctv's room package as seen through an account handle      *)
(* (src/room/user.go): the account itself (credentials, version counter,   *)
(* admin flag) and the playlist operations an account performs on its      *)
(* room (NewMovie, Movie, Movies, EditMovie).                              *)
(*                                                                         *)
(* The specifications share the variables:                                 *)
(*   AccountSpec   one account object and the methods that touch only it;  *)
(*   Spec          one room with a fixed set of accounts and its playlist, *)
(*                 under every playlist operation;                         *)
(*   NewMovieSpec  the room under NewMovie calls and deletions alone;      *)
(*   EditSpec      the room under NewMovie, EditMovie and deletions.       *)
(*                                                                         *)
(* Every operation records what it returned in the variable ret, so that   *)
(* properties of return values are state predicates.                       *)
(***************************************************************************)
EXTENDS Integers, Sequences, FiniteSets, TLC

VARIABLES
    acct,      \* AccountSpec: the *User under observation, or NoUser (nil)
    plain,     \* AccountSpec, history: the password acct.password was hashed from
    ret,       \* what the last call was and what it returned
    mid,       \* Room.mid, the movie-id counter
    movies,    \* Room.movies: the playlist, a sequence of entries in list order
    channels,  \* Room.rtmpa: the pull keys of the live channels that exist
    pend,      \* per user: the id an in-flight NewMovie drew and has not built yet
    assigned,  \* history: the ids the counter handed out, in order
    deleted,   \* history: the ids of the entries removed from the playlist
    edit,      \* per user: the EditMovie call in flight
    tally,     \* history: EditMovie calls, flag transitions, allocator calls
    lock,      \* Room.movies.lock: the users holding it for reading
    trav,      \* per user: the Movies call in flight
    inserted,  \* history: the ids of the entries inserted, in order
    hub,       \* Room.hub: the registered clients and the connections
    bcast,     \* per user: the Broadcast call in flight
    lk,        \* per user: the call in flight, as the locks see it
    bump,      \* the concurrent calls that bump the account's version
    act        \* the account's lastAct, the clock, and the calls on them

vars == <<acct, plain, ret, mid, movies, channels, pend, assigned, deleted,
          edit, tally, lock, trav, inserted, hub, bcast, lk, bump,
          act>>

accountVars == <<acct, plain>>
roomVars == <<mid, movies, channels, pend, assigned, deleted>>
liveVars == <<edit, tally>>

rangeVars == <<lock, trav, inserted>>

hubVars == <<hub>>
castVars == <<bcast>>
lockVars == <<lk>>
bumpVars == <<bump>>
actVars == <<act>>

\* The variables that only the statement-level specifications change.
stepVars ==
    <<liveVars, rangeVars, hubVars, castVars, lockVars, bumpVars, actVars>>

\* What the actions of one group of them leave alone of the other groups.
notLive ==
    <<rangeVars, hubVars, castVars, lockVars, bumpVars, actVars>>
notRange ==
    <<liveVars, hubVars, castVars, lockVars, bumpVars, actVars>>
notHub ==
    <<liveVars, rangeVars, castVars, lockVars, bumpVars, actVars>>
notCast ==
    <<liveVars, rangeVars, hubVars, lockVars, bumpVars, actVars>>
notLock ==
    <<liveVars, rangeVars, hubVars, castVars, bumpVars, actVars>>
notBump == <<liveVars, rangeVars, hubVars, castVars, lockVars, actVars>>
notAct == <<liveVars, rangeVars, hubVars, castVars, lockVars, bumpVars>>

(***************************************************************************)
(* Bounds of the model.                                                    *)
(***************************************************************************)
\* The 64-bit counters are modelled with this many bits.
CounterBits == 2
\* NewMovie is called while the movie-id counter is below this.
MaxMid == 2
\* The statement-level specifications make at most this many EditMovie calls.
MaxEdits == 2
\* RegClient is called with at most this many connections.
MaxConns == 3
\* The goroutines that bump the version of one account concurrently.
MaxBumps == 2
\* The clock runs from 0 to MaxClock microseconds.
MaxClock == 2

RECURSIVE Pow2(_)
Pow2(n) == IF n = 0 THEN 1 ELSE 2 * Pow2(n - 1)

CounterMod == Pow2(CounterBits)
Uint64 == 0 .. (CounterMod - 1)

(***************************************************************************)
(* Program constants.                                                      *)
(***************************************************************************)
MaxNameLen == 32
MaxPasswordLen == 32
\* bcrypt reads at most this many bytes of key, and GenerateFromPassword
\* refuses a longer password.
BcryptMaxLen == 72

NoUser == [nil |-> TRUE]

(***************************************************************************)
(* ret: the last call.  op names it; the other fields are its arguments    *)
(* and results, and hold Nil when the call has none.                       *)
(***************************************************************************)
Nil == "-"

Ret(op, args, err, out) == [op |-> op, args |-> args, err |-> err, out |-> out]

(***************************************************************************)
(* Strings are sequences of bytes.                                         *)
(***************************************************************************)
Rep(b, n) == [i \in 1 .. n |-> b]

\* The names and passwords the operations are called with: the empty
\* string, short ones, one with an embedded NUL, and one on each side of
\* the limits the code and bcrypt set.
Names == { <<>>, <<97>>, Rep(97, MaxNameLen), Rep(97, MaxNameLen + 1) }

Passwords ==
    { <<>>, <<97>>, <<98>>, <<97, 0, 97>>,
      Rep(97, MaxPasswordLen), Rep(97, MaxPasswordLen + 1),
      Rep(97, BcryptMaxLen - 1), Rep(97, BcryptMaxLen),
      Rep(97, BcryptMaxLen + 1) }

(***************************************************************************)
(* sync/atomic                                                             *)
(***************************************************************************)
AtomicSwapReturnsNew(x, new) == [val |-> new, old |-> new]

\* atomic.SwapInt64: the value stored and the value returned.
AtomicSwapInt64(x, new) == [val |-> new, old |-> x]

AtomicAddLost(x, delta) == x

AtomicAddTwice(x, delta) == (x + 2 * delta) % CounterMod

\* atomic.AddUint64: the new value, modulo the counter's width.
AtomicAddUint64(x, delta) == (x + delta) % CounterMod

(***************************************************************************)
(* golang.org/x/crypto/bcrypt, as far as the account uses it.  The hash of *)
(* a password is a function of the salt and of the Blowfish key, which is  *)
(* the password followed by a NUL byte, repeated cyclically, of which the  *)
(* key schedule reads the first 72 bytes.  The salt plays no part in a     *)
(* comparison and is left out: a hash is represented by its key.           *)
(***************************************************************************)
BcryptKey(password) ==
    LET ckey == Append(password, 0)
    IN  [i \in 1 .. BcryptMaxLen |-> ckey[((i - 1) % Len(ckey)) + 1]]

\* bcrypt.GenerateFromPassword(password, DefaultCost).  saltOk: reading the
\* random salt succeeded.
GenerateFromPassword(password, saltOk) ==
    IF Len(password) > BcryptMaxLen
    THEN [hash |-> <<>>, err |-> "ErrPasswordTooLong"]
    ELSE IF ~saltOk
    THEN [hash |-> <<>>, err |-> "ErrSalt"]
    ELSE [hash |-> BcryptKey(password), err |-> "nil"]

\* bcrypt.CompareHashAndPassword(hash, password) = nil
CompareHashAndPassword(hash, password) == hash = BcryptKey(password)

(***************************************************************************)
(* NewUser and its options                                                 *)
(***************************************************************************)
WithUserVersion(version) == [kind |-> "version", version |-> version, admin |-> FALSE]
WithUserAdmin(admin) == [kind |-> "admin", version |-> 0, admin |-> admin]

ApplyUserConf(u, c) ==
    CASE c.kind = "version" -> [u EXCEPT !.version = c.version]
      [] c.kind = "admin" -> [u EXCEPT !.admin = c.admin]
      [] OTHER -> u

RECURSIVE ApplyUserConfs(_, _)
ApplyUserConfs(u, conf) ==
    IF conf = <<>> THEN u
    ELSE ApplyUserConfs(ApplyUserConf(u, Head(conf)), Tail(conf))

\* The option lists NewUser is called with.
UserConfs ==
    {<<>>}
    \cup { <<WithUserVersion(v)>> : v \in Uint64 }
    \cup { <<WithUserAdmin(b)>> : b \in BOOLEAN }
    \cup { <<WithUserVersion(v), WithUserAdmin(TRUE)>> : v \in Uint64 }

NameErrOffByOne(id) ==
    IF id = <<>> THEN "ErrUsernameEmpty"
    ELSE IF Len(id) >= MaxNameLen THEN "ErrUsernameTooLong"
    ELSE "nil"

NameErr(id) ==
    IF id = <<>> THEN "ErrUsernameEmpty"
    ELSE IF Len(id) > MaxNameLen THEN "ErrUsernameTooLong"
    ELSE "nil"

PasswordErr(password) ==
    IF password = <<>> THEN "ErrUserPasswordEmpty"
    ELSE IF Len(password) > MaxPasswordLen THEN "ErrUserPasswordTooLong"
    ELSE "nil"

\* NewUser(id, password, room, conf...): the account and the error.  seed is
\* the value rand.Uint64() returns.
NewUser(id, password, conf, saltOk, seed) ==
    IF NameErr(id) # "nil" THEN [user |-> NoUser, err |-> NameErr(id)]
    ELSE IF PasswordErr(password) # "nil"
    THEN [user |-> NoUser, err |-> PasswordErr(password)]
    ELSE LET g == GenerateFromPassword(password, saltOk)
         IN  IF g.err # "nil" THEN [user |-> NoUser, err |-> g.err]
             ELSE LET u0 == [name |-> id, password |-> g.hash,
                             version |-> 0, admin |-> FALSE]
                      u1 == ApplyUserConfs(u0, conf)
                      u2 == IF u1.version = 0
                            THEN [u1 EXCEPT !.version = seed]
                            ELSE u1
                  IN  [user |-> u2, err |-> "nil"]

(***************************************************************************)
(* The account's methods, as operators on the account record.              *)
(***************************************************************************)
\* (*User).Version
Version(u) == u.version

CheckVersionAtLeast(u, version) == Version(u) >= version

\* (*User).CheckVersion
CheckVersion(u, version) == Version(u) = version

\* (*User).SetVersion
SetVersion(u, version) == [u EXCEPT !.version = version]

\* (*User).updateVersion: the account after the increment.
updateVersion(u) == [u EXCEPT !.version = AtomicAddUint64(u.version, 1)]

\* (*User).CheckPassword
CheckPassword(u, password) == CompareHashAndPassword(u.password, password)

SetPasswordNoStore(u, password, saltOk) ==
    LET g == GenerateFromPassword(password, saltOk)
    IN  IF g.err # "nil" THEN [user |-> u, err |-> g.err]
        ELSE [user |-> updateVersion(u), err |-> "nil"]

SetPasswordBumpsFirst(u, password, saltOk) ==
    LET g == GenerateFromPassword(password, saltOk)
    IN  IF g.err # "nil" THEN [user |-> updateVersion(u), err |-> g.err]
        ELSE [user |-> updateVersion([u EXCEPT !.password = g.hash]),
              err |-> "nil"]

\* (*User).SetPassword: the account afterwards and the error.
SetPassword(u, password, saltOk) ==
    LET g == GenerateFromPassword(password, saltOk)
    IN  IF g.err # "nil" THEN [user |-> u, err |-> g.err]
        ELSE [user |-> updateVersion([u EXCEPT !.password = g.hash]),
              err |-> "nil"]

\* (*User).SetAdmin
SetAdmin(u, admin) == [u EXCEPT !.admin = admin]

(***************************************************************************)
(* The room.  Its accounts are fixed: alice, a plain user; bob, an admin;   *)
(* and the room's root user, who is no admin.  An account is identified by *)
(* its name.                                                               *)
(***************************************************************************)
Users == {"alice", "bob", "root"}

\* The accounts that call NewMovie.
Creators == {"alice", "bob"}

\* Room.rootUser
rootUser == "root"

\* The accounts whose admin field is true.
Admins == {"bob"}

\* (*User).IsAdmin
IsAdmin(u) == u \in Admins

IsRootNever(u) == FALSE

\* (*User).IsRoot
IsRoot(u) == rootUser = u

\* Movie.PullKey is a string; "" is modelled as 0 and the key of a live
\* channel as a positive number.
NoKey == 0

\* A header map is a set of <<key, value>> pairs; nil and the empty map are
\* both the empty set.
NoHeaders == {}
SomeHeaders == {<<"Referer", "x">>}

BaseMovieInfo(url, proxy, rtmpSource, headers) ==
    [Url |-> url, Name |-> "n", Live |-> FALSE, Proxy |-> proxy,
     RtmpSource |-> rtmpSource, Type |-> "mp4", Headers |-> headers]

\* The base infos EditMovie is called with.
EditInfos ==
    { BaseMovieInfo("u", p, r, h) :
        p \in BOOLEAN, r \in BOOLEAN, h \in {NoHeaders, SomeHeaders} }

\* The base infos NewMovie is called with; the one with the empty URL fails
\* the constructor's validation.
BaseInfos == EditInfos \cup { BaseMovieInfo("", FALSE, FALSE, NoHeaders) }

\* in-flight NewMovie: none
NoPend == -1

\* The position of the entry with this id in the playlist, 0 when absent.
IndexOf(id) ==
    IF \E i \in DOMAIN movies : movies[i].id = id
    THEN CHOOSE i \in DOMAIN movies : movies[i].id = id
    ELSE 0

GetMovieOrFirst(id) ==
    IF IndexOf(id) = 0 /\ movies = <<>> THEN [err |-> "ErrNotFound", i |-> 0]
    ELSE IF IndexOf(id) = 0 THEN [err |-> "nil", i |-> 1]
    ELSE [err |-> "nil", i |-> IndexOf(id)]

\* movies.GetMovie(id): the entry, or the not-found error.
GetMovie(id) ==
    IF IndexOf(id) = 0 THEN [err |-> "ErrNotFound", i |-> 0]
    ELSE [err |-> "nil", i |-> IndexOf(id)]

\* Movie.Check: the validation of the base info.
CheckBase(base) == IF base.Url = "" THEN "ErrUrlEmpty" ELSE "nil"

\* The live channel allocator's key for a movie.
Allocate(id) == id

\* rtmpa.DelChannel(key): idempotent.
DelChannel(chs, key) == chs \ {key}

\* The package's NewMovieWithBaseMovie(id, baseMovie, WithCreator(u)): the
\* entry and the error.
BuildMovie(id, base, u) ==
    IF CheckBase(base) # "nil" THEN [err |-> CheckBase(base), movie |-> Nil]
    ELSE [err |-> "nil",
          movie |-> [id |-> id, base |-> base,
                     PullKey |-> IF base.RtmpSource THEN Allocate(id) ELSE NoKey,
                     CreatedAt |-> id, creator |-> u]]

\* WithCreator(u), a MovieConf.
WithCreator(u) == [kind |-> "creator", creator |-> u]

\* The option lists NewMovie is called with: none, and a creator option
\* naming each of the accounts.
MovieConfs == {<<>>} \cup { <<WithCreator(v)>> : v \in Users }

AppendCreatorFirst(conf, u) == <<WithCreator(u)>> \o conf

\* append(conf, WithCreator(u))
AppendCreator(conf, u) == Append(conf, WithCreator(u))

\* The constructor applies its options to the entry in the order given.
RECURSIVE ApplyMovieConfs(_, _)
ApplyMovieConfs(m, conf) ==
    IF conf = <<>> THEN m
    ELSE ApplyMovieConfs(
             IF Head(conf).kind = "creator"
             THEN [m EXCEPT !.creator = Head(conf).creator]
             ELSE m,
             Tail(conf))

\* The package's NewMovieWithBaseMovie(id, baseMovie, conf...): the entry
\* and the error.
BuildMovieWith(id, base, conf) ==
    IF CheckBase(base) # "nil" THEN [err |-> CheckBase(base), movie |-> Nil]
    ELSE [err |-> "nil",
          movie |-> ApplyMovieConfs(BuildMovie(id, base, Nil).movie, conf)]

\* The view Movie and Movies build of an entry, before any redaction.
MovieInfo(m) ==
    [Id |-> m.id, Url |-> m.base.Url, Name |-> m.base.Name,
     Live |-> m.base.Live, Proxy |-> m.base.Proxy,
     RtmpSource |-> m.base.RtmpSource, Type |-> m.base.Type,
     Headers |-> m.base.Headers, PullKey |-> m.PullKey,
     CreatedAt |-> m.CreatedAt, Creator |-> m.creator]

\* The test Movie and Movies redact on.
Redacts(u, view) == view.Proxy /\ u # view.Creator

\* The permission test of EditMovie.
EditDenied(u, m) == ~IsAdmin(u) /\ ~IsRoot(u) /\ m.creator # u

EditedKeepsKey(m, movie) ==
    LET pre == m.base
        m1 == [m EXCEPT !.base = movie]
    IN  CASE pre.RtmpSource /\ ~movie.RtmpSource -> [m1 EXCEPT !.PullKey = NoKey]
          [] OTHER -> m1

\* The entry after EditMovie's assignments.
Edited(m, movie) ==
    LET pre == m.base
        m1 == [m EXCEPT !.base = movie]
    IN  CASE pre.RtmpSource /\ ~movie.RtmpSource -> [m1 EXCEPT !.PullKey = NoKey]
          [] pre.Proxy /\ ~movie.Proxy -> [m1 EXCEPT !.PullKey = NoKey]
          [] OTHER -> m1

StoreBaseFlags(m, movie) ==
    [m EXCEPT !.base.Proxy = movie.Proxy,
              !.base.RtmpSource = movie.RtmpSource]

\* m.BaseMovieInfo = movie
StoreBase(m, movie) == [m EXCEPT !.base = movie]

EditDelChannelNever(m, movie) == {}

\* The keys EditMovie calls rtmpa.DelChannel with: the entry's pull key as
\* it is when the first case of the switch is taken.
EditDelChannel(m, movie) ==
    IF m.base.RtmpSource /\ ~movie.RtmpSource THEN {m.PullKey} ELSE {}

EditCaseNoProxy(pre, movie) ==
    CASE pre.RtmpSource /\ ~movie.RtmpSource -> "rtmp"
      [] OTHER -> "none"

\* The case EditMovie's switch takes, given the base info it copied from
\* the entry and the one it was called with.
EditCase(pre, movie) ==
    CASE pre.RtmpSource /\ ~movie.RtmpSource -> "rtmp"
      [] pre.Proxy /\ ~movie.Proxy -> "proxy"
      [] OTHER -> "none"

EditDelKeyCleared(m) == NoKey

\* The argument of EditMovie's DelChannel call: the entry's pull key.
EditDelKey(m) == m.PullKey

\* edit[u] while u has no EditMovie call in flight.
\*   pc     where the call is: idle, or the statement it executes next
\*   id, movie   its arguments
\*   pre    its local copy of the entry's base info
\*   key    history: the pull key the entry held when the call began
\*   del    history: the keys it has called DelChannel with
NoEdit ==
    [pc |-> "idle", id |-> 0, movie |-> Nil, pre |-> Nil, key |-> NoKey,
     del |-> {}]

\* tally before the first EditMovie call.
\*   calls     the EditMovie calls begun
\*   ups, downs   per entry: the changes of its stored RtmpSource flag
\*                from false to true and from true to false
\*   allocs, releases   per entry: the calls EditMovie made to the live
\*                channels to allocate a key and to delete a channel
\*   offKey    per entry: the pull key it held when its flag last went
\*             from true to false
NoTally ==
    [calls |-> 0,
     ups |-> [id \in 1 .. MaxMid |-> 0],
     downs |-> [id \in 1 .. MaxMid |-> 0],
     allocs |-> [id \in 1 .. MaxMid |-> 0],
     releases |-> [id \in 1 .. MaxMid |-> 0],
     offKey |-> [id \in 1 .. MaxMid |-> NoKey]]

\* The view Movies appends for an entry: redacted for u where the test
\* says so.
ViewFor(u, m) ==
    LET v == MovieInfo(m)
    IN  IF Redacts(u, v) THEN [v EXCEPT !.Headers = NoHeaders] ELSE v

RLockNot(readers, u) == readers

\* movies.lock.RLock() by u: u joins the readers.
RLock(readers, u) == readers \cup {u}

\* movies.lock.RUnlock() by u.
RUnlock(readers, u) == readers \ {u}

\* The write lock can be taken: nobody holds the lock for reading.  (A
\* write is one step of the model, so no writer is ever seen holding it.)
CanLock(readers) == readers = {}

\* trav[u] while u has no Movies call in flight.
\*   pc    idle, or range while the traversal runs
\*   cur   the id of the node range_ visits next, 0 past the last
\*   out   the slice of views built so far
\*   snap  history: the ids in the playlist, in order, when the read lock
\*         was taken
\*   gone  history: the ids removed from the playlist by then
NoTrav == [pc |-> "idle", cur |-> 0, out |-> <<>>, snap |-> <<>>, gone |-> {}]

\* The ids of a sequence of entries.
Ids(seq) == [i \in DOMAIN seq |-> seq[i].id]

\* e.Next(): the id of the node after the one with this id, 0 when that
\* one is the last; a node that was removed from the list has no next.
NextId(id) ==
    IF IndexOf(id) = 0 \/ IndexOf(id) = Len(movies) THEN 0
    ELSE movies[IndexOf(id) + 1].id

\* hub.clients holds no connection for a name.
NoConn == 0

LoadAndDeleteKeeps(clients, name) ==
    [clients |-> clients, c |-> clients[name]]

\* hub.clients.LoadAndDelete(name): the map afterwards and the connection
\* loaded, NoConn when there was none.
LoadAndDelete(clients, name) ==
    [clients |-> [clients EXCEPT ![name] = NoConn], c |-> clients[name]]

CloseHubClosesNever(c) == FALSE

\* CloseHub's test of loaded: it closes what LoadAndDelete found.
CloseHubCloses(c) == c # NoConn

RegisterKeepsPrevious(clients, name, conn) ==
    [clients |-> [clients EXCEPT ![name] = conn], previous |-> NoConn]

\* The hub's registration: the slot of the name is replaced in one step,
\* and what it held is returned to be closed.
Register(clients, name, conn) ==
    [clients |-> [clients EXCEPT ![name] = conn], previous |-> clients[name]]

\* The option User.Broadcast appends to its caller's.
WithSender(name) == [kind |-> "sender", sender |-> name]

\* The option lists Broadcast is called with: none, and a sender option
\* naming each of the accounts.
CastConfs == {<<>>} \cup { <<WithSender(v)>> : v \in Users }

AppendSenderFirst(conf, name) == <<WithSender(name)>> \o conf

\* append(conf, WithSender(u.name))
AppendSender(conf, name) == Append(conf, WithSender(name))

\* The sender a broadcast carries: the room applies the options in the
\* order given, so the last sender option decides.
RECURSIVE SenderOf(_)
SenderOf(conf) ==
    IF conf = <<>> THEN Nil
    ELSE IF conf[Len(conf)].kind = "sender" THEN conf[Len(conf)].sender
    ELSE SenderOf(SubSeq(conf, 1, Len(conf) - 1))

\* bcast[u] while u has no Broadcast call in flight.
\*   pc       idle, or send while the message is being delivered
\*   conf     the options the room's Broadcast was called with
\*   targets  the connections registered when the call began
\*   sent     those of them a send was attempted on
\*   failed   those of them whose send returned an error
NoCast ==
    [pc |-> "idle", conf |-> <<>>, targets |-> {}, sent |-> {}, failed |-> {}]

\* The connections registered in the hub.
Connections(clients) == { clients[u] : u \in Users } \ {NoConn}

ToSendUntilFailure(b) == IF b.failed # {} THEN {} ELSE b.targets \ b.sent

\* The connections a Broadcast in flight has still to send to: every
\* target not tried yet, whatever became of the earlier sends.
ToSend(b) == b.targets \ b.sent

\* The error Broadcast returns: nil, or the aggregate of the failures.
Aggregate(failed) == IF failed = {} THEN "nil" ELSE "ErrSend"

(***************************************************************************)
(* The operations of an account handle as the two locks see them: the      *)
(* sequence of lock operations and calls each makes, in program order.     *)
(* "playlist" is Room.movies.lock, "room" the lock of the room itself.     *)
(***************************************************************************)
Acquire(l, mode) == [do |-> "acquire", lock |-> l, mode |-> mode]
Release(l) == [do |-> "release", lock |-> l, mode |-> Nil]
Call(f) == [do |-> "call", lock |-> Nil, mode |-> f]
Write(field) == [do |-> "write", lock |-> Nil, mode |-> field]

Operations ==
    {"Movie", "Movies", "EditMovie", "NewMovie", "CloseHub", "RegClient",
     "Broadcast"}

\* What the callees outside this file do to the two locks: the room takes
\* its own lock around a registration and around a delivery, the
\* constructor inserts under the playlist lock taken for writing, and the
\* lookups, the traversal, the stream registry and the hub's map take
\* neither lock themselves.
Callee(f) ==
    CASE f = "Room.RegClient" ->
            <<Acquire("room", "W"), Call("Register"), Release("room")>>
      [] f = "Room.Broadcast" ->
            <<Acquire("room", "R"), Call("Send"), Release("room")>>
      [] f = "NewMovieWithBaseMovie" ->
            <<Acquire("playlist", "W"), Call("PushBack"),
              Release("playlist")>>
      [] OTHER -> <<Call(f)>>

ScriptNested(op) ==
    CASE op = "Movie" ->
            <<Acquire("playlist", "R")>> \o Callee("GetMovie")
                \o <<Write("Headers"), Release("playlist")>>
      [] op = "Movies" ->
            <<Acquire("playlist", "R")>> \o Callee("range_")
                \o Callee("Room.Broadcast") \o <<Release("playlist")>>
      [] op = "EditMovie" ->
            Callee("GetMovie") \o <<Write("BaseMovieInfo")>>
                \o Callee("DelChannel") \o <<Write("PullKey")>>
      [] op = "NewMovie" ->
            <<Call("AddUint64")>> \o Callee("NewMovieWithBaseMovie")
      [] op = "CloseHub" -> Callee("LoadAndDelete") \o Callee("Close")
      [] op = "RegClient" -> Callee("Room.RegClient")
      [] op = "Broadcast" -> Callee("Room.Broadcast")

\* Movie and Movies take the playlist lock for reading on entry and release
\* it on return, and call only the playlist and its entries in between;
\* Movie may write the Headers of the entry it found.  EditMovie takes no
\* lock and writes the BaseMovieInfo and the PullKey of the entry it
\* found.  CloseHub takes no lock.  NewMovie draws the id and calls
\* the constructor.  RegClient and Broadcast call the room with no lock
\* held.
Script(op) ==
    CASE op = "Movie" ->
            <<Acquire("playlist", "R")>> \o Callee("GetMovie")
                \o <<Write("Headers"), Release("playlist")>>
      [] op = "Movies" ->
            <<Acquire("playlist", "R")>> \o Callee("range_")
                \o <<Release("playlist")>>
      [] op = "EditMovie" ->
            Callee("GetMovie") \o <<Write("BaseMovieInfo")>>
                \o Callee("DelChannel") \o <<Write("PullKey")>>
      [] op = "NewMovie" ->
            <<Call("AddUint64")>> \o Callee("NewMovieWithBaseMovie")
      [] op = "CloseHub" -> Callee("LoadAndDelete") \o Callee("Close")
      [] op = "RegClient" -> Callee("Room.RegClient")
      [] op = "Broadcast" -> Callee("Room.Broadcast")

\* lk[u] while u has no call in flight.
\*   op    the operation
\*   at    the position in its script of what it does next
\*   held  the locks it holds, each with the mode
NoCall == [op |-> Nil, at |-> 0, held |-> {}]

\* The modes in which others than u hold a lock.
HeldByOthers(u, l) ==
    { h[2] : h \in UNION { lk[v].held : v \in Users \ {u} } \cap
                     ({l} \X {"R", "W"}) }

\* sync.RWMutex: a read lock is granted while nobody holds the lock for
\* writing, a write lock while nobody holds it at all.
Grantable(u, l, mode) ==
    IF mode = "R" THEN "W" \notin HeldByOthers(u, l)
    ELSE HeldByOthers(u, l) = {}

Bumpers == 1 .. MaxBumps

\* The passwords SetPassword is called with concurrently: one that is
\* hashed and one that bcrypt refuses.
BumpPasswords == { <<97>>, Rep(97, BcryptMaxLen + 1) }

\* bump.th[t] while goroutine t has not called.
NoBump == [pc |-> "idle", op |-> Nil, password |-> <<>>, err |-> "nil",
           out |-> Nil]

\* act.th[t] while goroutine t has not called.
NoAct == [pc |-> "idle", now |-> 0]

PushFront(seq, m) == <<m>> \o seq

\* The playlist's insertion: at the tail.
PushBack(seq, m) == Append(seq, m)

RemoveAt(seq, i) == SubSeq(seq, 1, i - 1) \o SubSeq(seq, i + 1, Len(seq))


(***************************************************************************)
(* AccountSpec: actions                                                    *)
(***************************************************************************)
\* NewUser is a function of its arguments alone, so one call from the
\* initial state covers every call; the account it returns is the one the
\* other actions operate on.
DoNewUser ==
    /\ acct = NoUser
    /\ ret.op = "init"
    /\ \E id \in Names, password \in Passwords, conf \in UserConfs,
          saltOk \in BOOLEAN, seed \in Uint64 :
        LET r == NewUser(id, password, conf, saltOk, seed)
        IN  /\ acct' = IF r.err = "nil" THEN r.user ELSE acct
            /\ plain' = IF r.err = "nil" THEN password ELSE plain
            /\ ret' = Ret("NewUser",
                          [id |-> id, password |-> password, conf |-> conf,
                           saltOk |-> saltOk],
                          r.err, r.user)
    /\ UNCHANGED roomVars

DoVersion ==
    /\ acct # NoUser
    /\ ret' = Ret("Version", Nil, "nil", Version(acct))
    /\ UNCHANGED <<accountVars, roomVars>>

DoCheckVersion ==
    /\ acct # NoUser
    /\ \E v \in Uint64 :
        ret' = Ret("CheckVersion", v, "nil", CheckVersion(acct, v))
    /\ UNCHANGED <<accountVars, roomVars>>

DoSetVersion ==
    /\ acct # NoUser
    /\ \E v \in Uint64 :
        /\ acct' = SetVersion(acct, v)
        /\ ret' = Ret("SetVersion", v, "nil", Nil)
    /\ UNCHANGED <<plain, roomVars>>

DoUpdateVersion ==
    /\ acct # NoUser
    /\ acct' = updateVersion(acct)
    /\ ret' = Ret("updateVersion", Nil, "nil", Version(acct'))
    /\ UNCHANGED <<plain, roomVars>>

DoCheckPassword ==
    /\ acct # NoUser
    /\ \E password \in Passwords :
        ret' = Ret("CheckPassword", password, "nil", CheckPassword(acct, password))
    /\ UNCHANGED <<accountVars, roomVars>>

DoSetPassword ==
    /\ acct # NoUser
    /\ \E password \in Passwords, saltOk \in BOOLEAN :
        LET r == SetPassword(acct, password, saltOk)
        IN  /\ acct' = r.user
            /\ plain' = IF r.err = "nil" THEN password ELSE plain
            /\ ret' = Ret("SetPassword",
                          [password |-> password, saltOk |-> saltOk,
                           old |-> plain],
                          r.err, Nil)
    /\ UNCHANGED roomVars

DoSetAdmin ==
    /\ acct # NoUser
    /\ \E b \in BOOLEAN :
        /\ acct' = SetAdmin(acct, b)
        /\ ret' = Ret("SetAdmin", b, "nil", Nil)
    /\ UNCHANGED <<plain, roomVars>>

RoomInit ==
    /\ mid = 0
    /\ movies = <<>>
    /\ channels = {}
    /\ pend = [u \in Users |-> NoPend]
    /\ assigned = <<>>
    /\ deleted = {}

\* No EditMovie call was made yet.
LiveInit ==
    /\ edit = [u \in Users |-> NoEdit]
    /\ tally = NoTally

\* The playlist lock is free and no Movies call is in flight.
RangeInit ==
    /\ lock = {}
    /\ trav = [u \in Users |-> NoTrav]
    /\ inserted = <<>>

\* The hub of a new room: no client, no connection made yet.
\*   clients   hub.clients: per account name the registered connection
\*   closed    the connections Close was called on
\*   taken     the connections a call in flight has taken out of clients
\*             and not closed yet, each with the call that holds it
\*   nconn     the connections made so far; they are numbered from 1
\*   log       history: per name, the connections registered, in order
HubInit ==
    hub = [clients |-> [u \in Users |-> NoConn],
           closed |-> {},
           taken |-> {},
           nconn |-> 0,
           log |-> [u \in Users |-> <<>>]]

\* No Broadcast call is in flight.
CastInit == bcast = [u \in Users |-> NoCast]

\* No call is in flight and no lock is held.
LockInit == lk = [u \in Users |-> NoCall]

\* No goroutine has called yet.
\*   base  the version when the first of the calls was made
\*   th    per goroutine: where it is in its call, the call, the hash it
\*         is about to store, the error, and what updateVersion returned
BumpInit ==
    bump = [base |-> 0, th |-> [t \in Bumpers |-> NoBump]]

\* Before the account is made.
\*   lastAct  u.lastAct, in microseconds
\*   now      what time.Now().UnixMicro() returns at this moment
\*   th       per goroutine: where it is in its call and the time it read
\*   log      history: the stores in the order they took place, NewUser's
\*            first, each with the value stored and the value returned
ActInit ==
    act = [lastAct |-> 0, now |-> 0, th |-> [t \in Bumpers |-> NoAct],
           log |-> <<>>]

AccountInit ==
    /\ acct = NoUser
    /\ plain = <<>>
    /\ ret = Ret("init", Nil, "nil", Nil)
    /\ RoomInit
    /\ LiveInit
    /\ RangeInit
    /\ HubInit
    /\ CastInit
    /\ LockInit
    /\ BumpInit
    /\ ActInit

AccountNext ==
    \/ DoNewUser /\ UNCHANGED stepVars
    \/ DoVersion /\ UNCHANGED stepVars
    \/ DoCheckVersion /\ UNCHANGED stepVars
    \/ DoSetVersion /\ UNCHANGED stepVars
    \/ DoUpdateVersion /\ UNCHANGED stepVars
    \/ DoCheckPassword /\ UNCHANGED stepVars
    \/ DoSetPassword /\ UNCHANGED stepVars
    \/ DoSetAdmin /\ UNCHANGED stepVars

AccountSpec == AccountInit /\ [][AccountNext]_vars

(***************************************************************************)
(* Spec: actions                                                           *)
(***************************************************************************)
\* (*User).NewMovieWithBaseMovie, first step: the atomic increment of
\* room.mid that computes the constructor's id argument.
NewMovieAdd(u) ==
    /\ u \in Creators
    /\ pend[u] = NoPend
    /\ mid < MaxMid
    /\ mid' = AtomicAddUint64(mid, 1)
    /\ pend' = [pend EXCEPT ![u] = mid']
    /\ assigned' = Append(assigned, mid')
    /\ ret' = Ret("AddUint64", [user |-> u, before |-> mid], "nil", mid')
    /\ UNCHANGED <<accountVars, movies, channels, deleted>>

\* (*User).NewMovieWithBaseMovie, second step: the constructor runs with
\* the id drawn; a valid entry is appended to the playlist.
NewMovieBuild(u, infos) ==
    /\ pend[u] # NoPend
    /\ \E base \in infos :
        LET r == BuildMovie(pend[u], base, u)
        IN  /\ movies' = IF r.err = "nil" THEN PushBack(movies, r.movie) ELSE movies
            /\ channels' = IF r.err = "nil" /\ r.movie.PullKey # NoKey
                           THEN channels \cup {r.movie.PullKey}
                           ELSE channels
            /\ ret' = Ret("NewMovie", [user |-> u, id |-> pend[u], movie |-> base],
                          r.err, r.movie)
    /\ pend' = [pend EXCEPT ![u] = NoPend]
    /\ UNCHANGED <<accountVars, mid, assigned, deleted>>

\* (*User).NewMovieWithBaseMovie called with options, second step: the
\* constructor runs with the id drawn and the caller's options followed by
\* WithCreator(u).
NewMovieBuildWith(u, infos, confs) ==
    /\ pend[u] # NoPend
    /\ \E base \in infos, conf \in confs :
        LET r == BuildMovieWith(pend[u], base, AppendCreator(conf, u))
        IN  /\ movies' = IF r.err = "nil" THEN PushBack(movies, r.movie) ELSE movies
            /\ channels' = IF r.err = "nil" /\ r.movie.PullKey # NoKey
                           THEN channels \cup {r.movie.PullKey}
                           ELSE channels
            /\ ret' = Ret("NewMovie",
                          [user |-> u, id |-> pend[u], movie |-> base,
                           conf |-> conf],
                          r.err, r.movie)
    /\ pend' = [pend EXCEPT ![u] = NoPend]
    /\ UNCHANGED <<accountVars, mid, assigned, deleted>>

\* (*User).Movie
DoMovie(u) ==
    /\ \E id \in 1 .. MaxMid :
        LET g == GetMovie(id)
        IN  IF g.err # "nil"
            THEN /\ ret' = Ret("Movie", [user |-> u, id |-> id], g.err, Nil)
                 /\ UNCHANGED movies
            ELSE LET movie == MovieInfo(movies[g.i])
                 IN  /\ movies' = IF Redacts(u, movie)
                                  THEN [movies EXCEPT ![g.i].base.Headers = NoHeaders]
                                  ELSE movies
                     /\ ret' = Ret("Movie", [user |-> u, id |-> id], "nil", movie)
    /\ UNCHANGED <<accountVars, mid, channels, pend, assigned, deleted>>

\* (*User).Movies
DoMovies(u) ==
    /\ ret' = Ret("Movies", [user |-> u], "nil",
                  [i \in DOMAIN movies |-> ViewFor(u, movies[i])])
    /\ UNCHANGED <<accountVars, roomVars>>

\* (*User).EditMovie
DoEditMovie(u, infos) ==
    /\ \E id \in 1 .. MaxMid, movie \in infos :
        LET g == GetMovie(id)
            args == [user |-> u, id |-> id]
        IN  IF g.err # "nil"
            THEN /\ ret' = Ret("EditMovie", args, g.err, Nil)
                 /\ UNCHANGED <<movies, channels>>
            ELSE IF EditDenied(u, movies[g.i])
            THEN /\ ret' = Ret("EditMovie", args, "ErrNotCreator", Nil)
                 /\ UNCHANGED <<movies, channels>>
            ELSE LET m == movies[g.i]
                 IN  /\ movies' = [movies EXCEPT ![g.i] = Edited(m, movie)]
                     /\ channels' =
                            IF EditDelChannel(m, movie) # {}
                            THEN DelChannel(channels, m.PullKey)
                            ELSE channels
                     /\ ret' = Ret("EditMovie", args, "nil", Nil)
    /\ UNCHANGED <<accountVars, mid, pend, assigned, deleted>>

\* Room's deletion of a movie: the permission rule of EditMovie, the
\* release of the entry's live channel, the removal of the node.
DoDeleteMovie(u) ==
    /\ \E id \in 1 .. MaxMid :
        LET g == GetMovie(id)
            args == [user |-> u, id |-> id]
        IN  /\ g.err = "nil"
            /\ ~EditDenied(u, movies[g.i])
            /\ movies' = RemoveAt(movies, g.i)
            /\ channels' = DelChannel(channels, movies[g.i].PullKey)
            /\ deleted' = deleted \cup {id}
            /\ ret' = Ret("DeleteMovie", args, "nil", Nil)
    /\ UNCHANGED <<accountVars, mid, pend, assigned>>

Init == AccountInit

Next ==
    \E u \in Users :
        \/ NewMovieAdd(u) /\ UNCHANGED stepVars
        \/ NewMovieBuild(u, BaseInfos) /\ UNCHANGED stepVars
        \/ DoMovie(u) /\ UNCHANGED stepVars
        \/ DoMovies(u) /\ UNCHANGED stepVars
        \/ DoEditMovie(u, EditInfos) /\ UNCHANGED stepVars
        \/ DoDeleteMovie(u) /\ UNCHANGED stepVars

Spec == Init /\ [][Next]_vars

\* NewMovieSpec: the room under NewMovie calls and deletions alone.
NewMovieNext ==
    \E u \in Users :
        \/ NewMovieAdd(u) /\ UNCHANGED stepVars
        \/ NewMovieBuild(u, BaseInfos) /\ UNCHANGED stepVars
        \/ DoDeleteMovie(u) /\ UNCHANGED stepVars

NewMovieSpec == Init /\ [][NewMovieNext]_vars

\* EditSpec: the room under NewMovie, EditMovie and deletions, called with
\* base infos that differ in the Proxy and RtmpSource flags alone.
FlagInfos ==
    { BaseMovieInfo("u", p, r, NoHeaders) : p \in BOOLEAN, r \in BOOLEAN }

EditNext ==
    \E u \in Users :
        \/ NewMovieAdd(u) /\ UNCHANGED stepVars
        \/ NewMovieBuild(u, FlagInfos) /\ UNCHANGED stepVars
        \/ DoEditMovie(u, FlagInfos) /\ UNCHANGED stepVars
        \/ DoDeleteMovie(u) /\ UNCHANGED stepVars

EditSpec == Init /\ [][EditNext]_vars

\* ListSpec: the room under NewMovie, the two reads and deletions.
ListNext ==
    \E u \in Users :
        \/ NewMovieAdd(u) /\ UNCHANGED stepVars
        \/ NewMovieBuild(u, BaseInfos) /\ UNCHANGED stepVars
        \/ DoMovie(u) /\ UNCHANGED stepVars
        \/ DoMovies(u) /\ UNCHANGED stepVars
        \/ DoDeleteMovie(u) /\ UNCHANGED stepVars

ListSpec == Init /\ [][ListNext]_vars

\* CreatorSpec: the room under NewMovie calls with options, Movies calls
\* and deletions.
CreatorNext ==
    \E u \in Users :
        \/ NewMovieAdd(u) /\ UNCHANGED stepVars
        \/ NewMovieBuildWith(u, BaseInfos, MovieConfs) /\ UNCHANGED stepVars
        \/ DoMovies(u) /\ UNCHANGED stepVars
        \/ DoDeleteMovie(u) /\ UNCHANGED stepVars

CreatorSpec == Init /\ [][CreatorNext]_vars

\* LookupSpec: the room under NewMovie, Movie, EditMovie and deletions,
\* called with base infos that differ in the RtmpSource flag alone.
LookupInfos == { BaseMovieInfo("u", FALSE, r, NoHeaders) : r \in BOOLEAN }

LookupNext ==
    \E u \in Users :
        \/ NewMovieAdd(u) /\ UNCHANGED stepVars
        \/ NewMovieBuild(u, LookupInfos) /\ UNCHANGED stepVars
        \/ DoMovie(u) /\ UNCHANGED stepVars
        \/ DoEditMovie(u, LookupInfos) /\ UNCHANGED stepVars
        \/ DoDeleteMovie(u) /\ UNCHANGED stepVars

LookupSpec == Init /\ [][LookupNext]_vars

(***************************************************************************)
(* EditMovie, statement by statement.  EditMovie takes no lock, so the     *)
(* statements of concurrent calls interleave; each action below is one     *)
(* statement of user.go, executed by the call edit[u] describes.  The      *)
(* specifications that use these actions remove no entry while a call is   *)
(* in flight, so the entry a call found stays in the playlist.             *)
(***************************************************************************)
\* The entry with this id, in a state where the playlist holds it.
Entry(id) == movies[IndexOf(id)]

EditArgs(u) == [user |-> u, id |-> edit[u].id]

\* What a call that returns nil is recorded to have done: its arguments,
\* its local pre, and the history fields of edit[u].
EditOut(u) ==
    [movie |-> edit[u].movie, pre |-> edit[u].pre, key |-> edit[u].key,
     del |-> edit[u].del]

\* m, err := GetMovie(id), the early return, and the permission test with
\* its early return.
EditMovieGet(u, infos) ==
    /\ edit[u].pc = "idle"
    /\ tally.calls < MaxEdits
    /\ \E id \in 1 .. MaxMid, movie \in infos :
        LET g == GetMovie(id)
            args == [user |-> u, id |-> id]
        IN  IF g.err # "nil"
            THEN /\ ret' = Ret("EditMovie", args, g.err, Nil)
                 /\ edit' = [edit EXCEPT ![u] = NoEdit]
            ELSE IF EditDenied(u, movies[g.i])
            THEN /\ ret' = Ret("EditMovie", args, "ErrNotCreator", Nil)
                 /\ edit' = [edit EXCEPT ![u] = NoEdit]
            ELSE /\ ret' = Ret("EditMovie:GetMovie", args, "nil", Nil)
                 /\ edit' = [edit EXCEPT ![u] =
                                [pc |-> "pre", id |-> id, movie |-> movie,
                                 pre |-> Nil, key |-> movies[g.i].PullKey,
                                 del |-> {}]]
    /\ tally' = [tally EXCEPT !.calls = @ + 1]
    /\ UNCHANGED <<accountVars, roomVars, notLive>>

\* pre := m.BaseMovieInfo
EditMoviePre(u) ==
    /\ edit[u].pc = "pre"
    /\ edit' = [edit EXCEPT ![u].pre = Entry(edit[u].id).base,
                            ![u].pc = "store"]
    /\ ret' = Ret("EditMovie:pre", EditArgs(u), "nil", Nil)
    /\ UNCHANGED <<accountVars, roomVars, tally, notLive>>

\* m.BaseMovieInfo = movie
EditMovieStore(u) ==
    /\ edit[u].pc = "store"
    /\ LET id == edit[u].id
           m == Entry(id)
           was == m.base.RtmpSource
           now == edit[u].movie.RtmpSource
       IN  /\ movies' = [movies EXCEPT
                     ![IndexOf(id)] = StoreBase(@, edit[u].movie)]
           /\ tally' = [tally EXCEPT
                  !.ups[id] = IF ~was /\ now THEN @ + 1 ELSE @,
                  !.downs[id] = IF was /\ ~now THEN @ + 1 ELSE @,
                  !.offKey[id] = IF was /\ ~now THEN m.PullKey ELSE @]
    /\ edit' = [edit EXCEPT ![u].pc = "switch"]
    /\ ret' = Ret("EditMovie:BaseMovieInfo", EditArgs(u), "nil", Nil)
    /\ UNCHANGED <<accountVars, mid, channels, pend, assigned, deleted, notLive>>

\* The switch: in its first case the DelChannel call, in its second
\* nothing yet, and the return when no case applies.
EditMovieSwitch(u) ==
    /\ edit[u].pc = "switch"
    /\ LET id == edit[u].id
           c == EditCase(edit[u].pre, edit[u].movie)
           key == EditDelKey(Entry(id))
       IN  CASE c = "rtmp" ->
                 /\ channels' = DelChannel(channels, key)
                 /\ edit' = [edit EXCEPT ![u].del = @ \cup {key},
                                         ![u].pc = "clear"]
                 /\ tally' = [tally EXCEPT !.releases[id] = @ + 1]
                 /\ ret' = Ret("EditMovie:DelChannel", EditArgs(u), "nil", Nil)
             [] c = "proxy" ->
                 /\ edit' = [edit EXCEPT ![u].pc = "clear"]
                 /\ ret' = Ret("EditMovie:case", EditArgs(u), "nil", Nil)
                 /\ UNCHANGED <<channels, tally>>
             [] OTHER ->
                 /\ edit' = [edit EXCEPT ![u] = NoEdit]
                 /\ ret' = Ret("EditMovie", EditArgs(u), "nil", EditOut(u))
                 /\ UNCHANGED <<channels, tally>>
    /\ UNCHANGED <<accountVars, mid, movies, pend, assigned, deleted, notLive>>

\* m.PullKey = "" and the return.
EditMovieClear(u) ==
    /\ edit[u].pc = "clear"
    /\ movies' = [movies EXCEPT ![IndexOf(edit[u].id)].PullKey = NoKey]
    /\ edit' = [edit EXCEPT ![u] = NoEdit]
    /\ ret' = Ret("EditMovie", EditArgs(u), "nil", EditOut(u))
    /\ UNCHANGED <<accountVars, mid, channels, pend, assigned, deleted, tally,
                 notLive>>

\* No call is in flight.
Quiet == \A u \in Users : edit[u].pc = "idle" /\ pend[u] = NoPend

\* LiveSpec: the room under NewMovie, EditMovie and deletions made one
\* call at a time, EditMovie statement by statement.
LiveNext ==
    \E u \in Users :
        \/ Quiet /\ NewMovieAdd(u) /\ UNCHANGED stepVars
        \/ NewMovieBuild(u, FlagInfos) /\ UNCHANGED stepVars
        \/ Quiet /\ EditMovieGet(u, FlagInfos)
        \/ EditMoviePre(u)
        \/ EditMovieStore(u)
        \/ EditMovieSwitch(u)
        \/ EditMovieClear(u)
        \/ Quiet /\ DoDeleteMovie(u) /\ UNCHANGED stepVars

LiveSpec == Init /\ [][LiveNext]_vars

\* EditRaceSpec: the room under NewMovie calls and concurrent EditMovie
\* calls, and no deletion.
EditRaceNext ==
    \E u \in Users :
        \/ NewMovieAdd(u) /\ UNCHANGED stepVars
        \/ NewMovieBuild(u, FlagInfos) /\ UNCHANGED stepVars
        \/ EditMovieGet(u, FlagInfos)
        \/ EditMoviePre(u)
        \/ EditMovieStore(u)
        \/ EditMovieSwitch(u)
        \/ EditMovieClear(u)

EditRaceSpec == Init /\ [][EditRaceNext]_vars

\* FrameSpec: the room under NewMovie and EditMovie made one call at a
\* time, called with base infos that differ in the URL, which one of them
\* has empty, in the flags and in the headers.
FrameInfos ==
    { BaseMovieInfo("u", FALSE, FALSE, NoHeaders),
      BaseMovieInfo("v", TRUE, TRUE, SomeHeaders),
      BaseMovieInfo("", FALSE, FALSE, NoHeaders) }

FrameNext ==
    \E u \in Users :
        \/ Quiet /\ NewMovieAdd(u) /\ UNCHANGED stepVars
        \/ NewMovieBuild(u, FrameInfos) /\ UNCHANGED stepVars
        \/ Quiet /\ EditMovieGet(u, FrameInfos)
        \/ EditMoviePre(u)
        \/ EditMovieStore(u)
        \/ EditMovieSwitch(u)
        \/ EditMovieClear(u)

FrameSpec == Init /\ [][FrameNext]_vars

\* ReadRaceSpec: the room under NewMovie calls, EditMovie calls statement
\* by statement, and Movie and Movies calls in between.  A read holds the
\* playlist lock, which EditMovie does not take, so a read is one step
\* that falls between any two statements of an edit.
ReadRaceNext ==
    \E u \in Users :
        \/ NewMovieAdd(u) /\ UNCHANGED stepVars
        \/ NewMovieBuild(u, FlagInfos) /\ UNCHANGED stepVars
        \/ Quiet /\ EditMovieGet(u, FlagInfos)
        \/ EditMoviePre(u)
        \/ EditMovieStore(u)
        \/ EditMovieSwitch(u)
        \/ EditMovieClear(u)
        \/ DoMovie(u) /\ UNCHANGED stepVars
        \/ DoMovies(u) /\ UNCHANGED stepVars

ReadRaceSpec == Init /\ [][ReadRaceNext]_vars

(***************************************************************************)
(* Movies, node by node.  The call holds the playlist's lock for reading   *)
(* from its first statement to its return; the insertion NewMovie ends in  *)
(* and the deletion take the same lock for writing.                        *)
(***************************************************************************)
\* movies.lock.RLock(), the deferred RUnlock, make(...), and range_'s start
\* at the front of the list.
MoviesRLock(u) ==
    /\ trav[u].pc = "idle"
    /\ lock' = RLock(lock, u)
    /\ trav' = [trav EXCEPT ![u] =
                    [pc |-> "range",
                     cur |-> IF movies = <<>> THEN 0 ELSE movies[1].id,
                     out |-> <<>>, snap |-> Ids(movies), gone |-> deleted]]
    /\ ret' = Ret("Movies:RLock", [user |-> u], "nil", Nil)
    /\ UNCHANGED <<accountVars, roomVars, inserted, notRange>>

\* One call of range_'s callback, which appends the view of the node and
\* returns true, and range_'s step to the next node.  The model keeps no
\* entry that was removed, so the view of a removed node is its id alone.
MoviesVisit(u) ==
    /\ trav[u].pc = "range"
    /\ trav[u].cur # 0
    /\ LET id == trav[u].cur
           v == IF IndexOf(id) # 0 THEN ViewFor(u, Entry(id))
                ELSE [Id |-> id, Removed |-> TRUE]
       IN  trav' = [trav EXCEPT ![u].out = Append(@, v),
                                ![u].cur = NextId(id)]
    /\ ret' = Ret("Movies:range", [user |-> u], "nil", Nil)
    /\ UNCHANGED <<accountVars, roomVars, lock, inserted, notRange>>

\* The end of range_, the return and the deferred RUnlock.
MoviesReturn(u) ==
    /\ trav[u].pc = "range"
    /\ trav[u].cur = 0
    /\ lock' = RUnlock(lock, u)
    /\ trav' = [trav EXCEPT ![u] = NoTrav]
    /\ ret' = Ret("Movies",
                  [user |-> u, snap |-> trav[u].snap, gone |-> trav[u].gone],
                  "nil", trav[u].out)
    /\ UNCHANGED <<accountVars, roomVars, inserted, notRange>>

\* The insertion of NewMovie's entry under the write lock.
InsertLocked(u, infos) ==
    /\ CanLock(lock)
    /\ NewMovieBuild(u, infos)
    /\ inserted' = IF ret'.err = "nil" THEN Append(inserted, ret'.args.id)
                   ELSE inserted
    /\ UNCHANGED <<lock, trav, notRange>>

\* The deletion under the write lock.
DeleteLocked(u) ==
    /\ CanLock(lock)
    /\ DoDeleteMovie(u)
    /\ UNCHANGED stepVars

\* RangeSpec: the room under concurrent NewMovie calls, deletions and
\* Movies calls.
RangeNext ==
    \E u \in Users :
        \/ NewMovieAdd(u) /\ UNCHANGED stepVars
        \/ InsertLocked(u, FlagInfos)
        \/ DeleteLocked(u)
        \/ MoviesRLock(u)
        \/ MoviesVisit(u)
        \/ MoviesReturn(u)

RangeSpec == Init /\ [][RangeNext]_vars

(***************************************************************************)
(* The hub.  RegClient hands a new connection to the room, which registers *)
(* it under the account's name and closes the connection it replaced;      *)
(* CloseHub removes the account's connection and closes it.  The removal   *)
(* or replacement and the Close that follows are separate steps, so that   *)
(* concurrent calls interleave between them.                               *)
(***************************************************************************)
\* (*User).RegClient, first step: the connection is registered.  The call
\* returns here when the name had no connection.
RegClientStore(u) ==
    /\ hub.nconn < MaxConns
    /\ LET conn == hub.nconn + 1
           r == Register(hub.clients, u, conn)
       IN  /\ hub' = [hub EXCEPT
                  !.clients = r.clients,
                  !.nconn = conn,
                  !.log[u] = Append(@, conn),
                  !.taken = IF r.previous = NoConn THEN @
                            ELSE @ \cup {[conn |-> r.previous, by |-> conn]}]
           /\ ret' = IF r.previous = NoConn
                     THEN Ret("RegClient", [user |-> u, conn |-> conn], "nil", conn)
                     ELSE Ret("RegClient:Register", [user |-> u, conn |-> conn],
                              "nil", Nil)
    /\ UNCHANGED <<accountVars, roomVars, notHub>>

\* (*User).RegClient, second step: the connection that was replaced is
\* closed and the call returns.
RegClientClose(u) ==
    /\ \E t \in hub.taken :
        /\ t.by # NoConn
        /\ \E i \in DOMAIN hub.log[u] : hub.log[u][i] = t.by
        /\ hub' = [hub EXCEPT !.closed = @ \cup {t.conn},
                              !.taken = @ \ {t}]
        /\ ret' = Ret("RegClient", [user |-> u, conn |-> t.by], "nil", t.by)
    /\ UNCHANGED <<accountVars, roomVars, notHub>>

\* (*User).CloseHub, first step: c, loaded := clients.LoadAndDelete(u.name),
\* and the return when nothing was loaded.
CloseHubLoad(u) ==
    /\ LET l == LoadAndDelete(hub.clients, u)
           c == l.c
       IN  /\ hub' = [hub EXCEPT
                  !.clients = l.clients,
                  !.taken = IF CloseHubCloses(c)
                            THEN @ \cup {[conn |-> c, by |-> NoConn]}
                            ELSE @]
           /\ ret' = IF CloseHubCloses(c)
                     THEN Ret("CloseHub:LoadAndDelete", [user |-> u], "nil", c)
                     ELSE Ret("CloseHub", [user |-> u], "nil", Nil)
    /\ UNCHANGED <<accountVars, roomVars, notHub>>

\* (*User).CloseHub, second step: c.Close().
CloseHubClose(u) ==
    /\ \E t \in hub.taken :
        /\ t.by = NoConn
        /\ \E i \in DOMAIN hub.log[u] : hub.log[u][i] = t.conn
        /\ hub' = [hub EXCEPT !.closed = @ \cup {t.conn},
                              !.taken = @ \ {t}]
        /\ ret' = Ret("CloseHub", [user |-> u], "nil", Nil)
    /\ UNCHANGED <<accountVars, roomVars, notHub>>

\* HubSpec: the hub under concurrent RegClient and CloseHub calls.
HubNext ==
    \E u \in Users :
        \/ RegClientStore(u)
        \/ RegClientClose(u)
        \/ CloseHubLoad(u)
        \/ CloseHubClose(u)

HubSpec == Init /\ [][HubNext]_vars

(***************************************************************************)
(* Broadcast.  User.Broadcast appends WithSender(u.name) to the options    *)
(* and calls the room's Broadcast, which sends the message to every        *)
(* registered connection, one send per step; a send on a closed connection *)
(* fails, and any other send may fail.                                     *)
(***************************************************************************)
\* (*User).Broadcast: the call of the room's Broadcast.
BroadcastBegin(u) ==
    /\ bcast[u].pc = "idle"
    /\ bcast' = [bcast EXCEPT ![u] =
                    [pc |-> "send", conf |-> <<WithSender(u)>>,
                     targets |-> Connections(hub.clients),
                     sent |-> {}, failed |-> {}]]
    /\ ret' = Ret("Broadcast:begin", [user |-> u], "nil", Nil)
    /\ UNCHANGED <<accountVars, roomVars, notCast>>

\* (*User).Broadcast called with options: the room's Broadcast is called
\* with the caller's options followed by WithSender(u.name).
BroadcastBeginWith(u, confs) ==
    /\ \A v \in Users : bcast[v].pc = "idle"
    /\ \E conf \in confs :
        bcast' = [bcast EXCEPT ![u] =
                    [pc |-> "send", conf |-> AppendSender(conf, u),
                     targets |-> Connections(hub.clients),
                     sent |-> {}, failed |-> {}]]
    /\ ret' = Ret("Broadcast:begin", [user |-> u], "nil", Nil)
    /\ UNCHANGED <<accountVars, roomVars, notCast>>

\* One send of the message.
BroadcastSend(u) ==
    /\ bcast[u].pc = "send"
    /\ \E c \in ToSend(bcast[u]), ok \in BOOLEAN :
        /\ c \in hub.closed => ~ok
        /\ bcast' = [bcast EXCEPT ![u].sent = @ \cup {c},
                                  ![u].failed = IF ok THEN @ ELSE @ \cup {c}]
        /\ ret' = Ret("Broadcast:send", [user |-> u, conn |-> c],
                      IF ok THEN "nil" ELSE "ErrSend", Nil)
    /\ UNCHANGED <<accountVars, roomVars, notCast>>

\* The return of the room's Broadcast, and with it of User.Broadcast.
BroadcastReturn(u) ==
    /\ bcast[u].pc = "send"
    /\ ToSend(bcast[u]) = {}
    /\ bcast' = [bcast EXCEPT ![u] = NoCast]
    /\ ret' = Ret("Broadcast",
                  [user |-> u, conf |-> bcast[u].conf,
                   targets |-> bcast[u].targets, sent |-> bcast[u].sent],
                  Aggregate(bcast[u].failed), bcast[u].failed)
    /\ UNCHANGED <<accountVars, roomVars, notCast>>

\* BroadcastSpec: the hub under concurrent RegClient calls of every
\* account and concurrent Broadcast calls of alice and bob.
BroadcastNext ==
    \/ \E u \in Users :
        \/ RegClientStore(u)
        \/ RegClientClose(u)
    \/ \E u \in Creators :
        \/ BroadcastBegin(u)
        \/ BroadcastSend(u)
        \/ BroadcastReturn(u)

BroadcastSpec == Init /\ [][BroadcastNext]_vars

\* SenderSpec: the hub under RegClient calls and Broadcast calls with
\* options, one Broadcast at a time.
SenderNext ==
    \/ \E u \in Users :
        \/ RegClientStore(u)
        \/ RegClientClose(u)
    \/ \E u \in Creators :
        \/ BroadcastBeginWith(u, CastConfs)
        \/ BroadcastSend(u)
        \/ BroadcastReturn(u)

SenderSpec == Init /\ [][SenderNext]_vars

(***************************************************************************)
(* Concurrent bumps of one account's version, one statement per step.      *)
(* Each goroutine makes one call.                                          *)
(***************************************************************************)
\* The goroutines are interchangeable: they are numbered in the order of
\* their calls.
Called(t) == t \in Bumpers => bump.th[t] # NoBump

\* A goroutine calls updateVersion.
BumpCall(t) ==
    /\ acct # NoUser
    /\ bump.th[t] = NoBump
    /\ Called(t - 1)
    /\ bump' = [bump EXCEPT
            !.base = IF \A o \in Bumpers : bump.th[o] = NoBump
                     THEN Version(acct) ELSE @,
            !.th[t] = [NoBump EXCEPT !.pc = "add", !.op = "updateVersion"]]
    /\ ret' = Ret("call", "updateVersion", "nil", Nil)
    /\ UNCHANGED <<acct, plain, roomVars, notBump>>

\* A goroutine calls SetPassword, which computes the hash and returns the
\* error if there is one.
BumpSetPassword(t) ==
    /\ acct # NoUser
    /\ bump.th[t] = NoBump
    /\ Called(t - 1)
    /\ \E password \in BumpPasswords, saltOk \in BOOLEAN :
        LET g == GenerateFromPassword(password, saltOk)
        IN  bump' = [bump EXCEPT
                !.base = IF \A o \in Bumpers : bump.th[o] = NoBump
                         THEN Version(acct) ELSE @,
                !.th[t] = [NoBump EXCEPT
                              !.pc = IF g.err = "nil" THEN "store" ELSE "ret",
                              !.op = "SetPassword",
                              !.password = password,
                              !.err = g.err]]
    /\ ret' = Ret("call", "SetPassword", "nil", Nil)
    /\ UNCHANGED <<acct, plain, roomVars, notBump>>

\* u.password = hashedPassword
BumpStore(t) ==
    /\ bump.th[t].pc = "store"
    /\ acct' = [acct EXCEPT
            !.password =
                GenerateFromPassword(bump.th[t].password, TRUE).hash]
    /\ plain' = bump.th[t].password
    /\ bump' = [bump EXCEPT !.th[t].pc = "add"]
    /\ ret' = Ret("store", bump.th[t].op, "nil", Nil)
    /\ UNCHANGED <<roomVars, notBump>>

\* atomic.AddUint64(&u.version, 1)
BumpAdd(t) ==
    /\ bump.th[t].pc = "add"
    /\ acct' = updateVersion(acct)
    /\ bump' = [bump EXCEPT !.th[t].pc = "ret", !.th[t].out = Version(acct')]
    /\ ret' = Ret("add", bump.th[t].op, "nil",
                  Version(acct'))
    /\ UNCHANGED <<plain, roomVars, notBump>>

\* The call returns.
BumpReturn(t) ==
    /\ bump.th[t].pc = "ret"
    /\ bump' = [bump EXCEPT !.th[t].pc = "done"]
    /\ ret' = Ret(bump.th[t].op, Nil, bump.th[t].err,
                  IF bump.th[t].op = "updateVersion" THEN bump.th[t].out
                  ELSE Nil)
    /\ UNCHANGED <<acct, plain, roomVars, notBump>>

BumpNext ==
    \/ DoNewUser /\ UNCHANGED stepVars
    \/ \E t \in Bumpers :
        \/ BumpCall(t)
        \/ BumpSetPassword(t)
        \/ BumpStore(t)
        \/ BumpAdd(t)
        \/ BumpReturn(t)

BumpSpec == Init /\ [][BumpNext]_vars

(***************************************************************************)
(* The account's last activity.  UpdateLastAct reads the clock and then    *)
(* swaps; the two are separate steps.  Each goroutine calls it once.       *)
(***************************************************************************)
\* NewUser with the lastAct it sets: lastAct: time.Now().UnixMicro().
ActNewUser ==
    /\ DoNewUser
    /\ act' = IF acct' # NoUser
              THEN [act EXCEPT
                       !.lastAct = act.now,
                       !.log = <<[stored |-> act.now, returned |-> Nil]>>]
              ELSE act
    /\ UNCHANGED notAct

\* Time passes.
ActTick ==
    /\ act.now < MaxClock
    /\ act' = [act EXCEPT !.now = @ + 1]
    /\ ret' = Ret("tick", Nil, "nil", Nil)
    /\ UNCHANGED <<accountVars, roomVars, notAct>>

\* (*User).LastAct
DoLastAct ==
    /\ acct # NoUser
    /\ ret' = Ret("LastAct", Nil, "nil", act.lastAct)
    /\ UNCHANGED <<accountVars, roomVars, stepVars>>

\* (*User).UpdateLastAct, the argument: time.Now().UnixMicro()
ActNow(t) ==
    /\ acct # NoUser
    /\ act.th[t] = NoAct
    /\ t - 1 \in Bumpers => act.th[t - 1] # NoAct
    /\ act' = [act EXCEPT !.th[t] = [pc |-> "swap", now |-> act.now]]
    /\ ret' = Ret("now", Nil, "nil", act.now)
    /\ UNCHANGED <<accountVars, roomVars, notAct>>

\* (*User).UpdateLastAct, the swap and the return.
ActSwap(t) ==
    /\ act.th[t].pc = "swap"
    /\ LET r == AtomicSwapInt64(act.lastAct, act.th[t].now)
       IN  /\ act' = [act EXCEPT
                  !.lastAct = r.val,
                  !.th[t] = [pc |-> "done", now |-> 0],
                  !.log = Append(@, [stored |-> act.th[t].now,
                                     returned |-> r.old])]
           /\ ret' = Ret("UpdateLastAct", Nil, "nil", r.old)
    /\ UNCHANGED <<accountVars, roomVars, notAct>>

ActNext ==
    \/ ActNewUser
    \/ ActTick
    \/ DoLastAct
    \/ \E t \in Bumpers :
        \/ ActNow(t)
        \/ ActSwap(t)

ActSpec == Init /\ [][ActNext]_vars

(***************************************************************************)
(* The operations as the locks see them, one lock operation or call per    *)
(* step.                                                                   *)
(***************************************************************************)
\* What the call of u does next.
NextEvent(u) == Script(lk[u].op)[lk[u].at]

\* An account calls one of the operations of its handle.
LockCall(u) ==
    /\ lk[u] = NoCall
    /\ \E op \in Operations :
        /\ lk' = [lk EXCEPT ![u] = [op |-> op, at |-> 1, held |-> {}]]
        /\ ret' = Ret("begin", [user |-> u, op |-> op], "nil", Nil)
    /\ UNCHANGED <<accountVars, roomVars, notLock>>

\* The call takes its next step: it acquires a lock when that is granted
\* and waits otherwise, releases one, or calls on.
LockStep(u) ==
    /\ lk[u] # NoCall
    /\ lk[u].at <= Len(Script(lk[u].op))
    /\ LET e == NextEvent(u)
       IN  /\ e.do = "acquire" => Grantable(u, e.lock, e.mode)
           /\ lk' = [lk EXCEPT
                  ![u].at = @ + 1,
                  ![u].held =
                      CASE e.do = "acquire" -> @ \cup {<<e.lock, e.mode>>}
                        [] e.do = "release" ->
                              { h \in @ : h[1] # e.lock }
                        [] OTHER -> @]
           /\ ret' = Ret(e.do,
                         [user |-> u, op |-> lk[u].op, lock |-> e.lock,
                          what |-> e.mode],
                         "nil", lk[u].held)
    /\ UNCHANGED <<accountVars, roomVars, notLock>>

\* The call returns.
LockReturn(u) ==
    /\ lk[u] # NoCall
    /\ lk[u].at > Len(Script(lk[u].op))
    /\ lk' = [lk EXCEPT ![u] = NoCall]
    /\ ret' = Ret("return", [user |-> u, op |-> lk[u].op], "nil", lk[u].held)
    /\ UNCHANGED <<accountVars, roomVars, notLock>>

\* LockSpec: concurrent calls of the operations, as the locks see them.
LockNext ==
    \E u \in Users :
        \/ LockCall(u)
        \/ LockStep(u)
        \/ LockReturn(u)

LockSpec == Init /\ [][LockNext]_vars

(***************************************************************************)
(* Claims about the account                                                *)
(***************************************************************************)
\* A password bcrypt tells from every other such password: shorter than
\* the 72 bytes of key it reads, and free of NUL bytes.
Simple(password) ==
    /\ Len(password) < BcryptMaxLen
    /\ \A i \in 1 .. Len(password) : password[i] # 0

\* C6, as stated: a successful SetPassword(new) with new different from the
\* current password changes Version(), makes CheckPassword(new) true and
\* CheckPassword(old) false; after any successful SetPassword,
\* CheckPassword(p) is true exactly when p is the password set.
C6_SetPasswordAsStated ==
    [][(ret'.op = "SetPassword" /\ ret'.err = "nil")
        => /\ ret'.args.password # plain
                => /\ Version(acct') # Version(acct)
                   /\ CheckPassword(acct', ret'.args.password)
                   /\ ~CheckPassword(acct', plain)
           /\ \A p \in Passwords :
                CheckPassword(acct', p) <=> p = ret'.args.password]_vars

\* C6, amended: a successful SetPassword(new) changes Version() and makes
\* CheckPassword(new) true; among passwords shorter than 72 bytes without a
\* NUL byte, CheckPassword(p) is true exactly when p is the password set
\* last, so the old password fails.  The same holds of every later
\* CheckPassword call.
C6_SetPasswordEffect ==
    /\ [][(ret'.op = "SetPassword" /\ ret'.err = "nil")
            => LET new == ret'.args.password
               IN  /\ Version(acct') # Version(acct)
                   /\ CheckPassword(acct', new)
                   /\ \A p \in Passwords :
                        (Simple(p) /\ Simple(new))
                            => (CheckPassword(acct', p) <=> p = new)]_vars
    /\ [](ret.op = "CheckPassword" /\ Simple(ret.args) /\ Simple(plain)
            => (ret.out <=> ret.args = plain))

\* C6, witness: a password was replaced by a different one, both plain
\* short passwords.
C6_Witness ==
    /\ ret.op = "SetPassword"
    /\ ret.err = "nil"
    /\ ret.args.old # ret.args.password
    /\ Simple(ret.args.old)
    /\ Simple(ret.args.password)
    /\ ret.args.old # <<>>

\* C7: SetPassword answers an empty password and one longer than 32 bytes
\* with the error NewUser gives for it, and leaves the account as it was.
C7_SetPasswordBounds ==
    [][(ret'.op = "SetPassword" /\ PasswordErr(ret'.args.password) # "nil")
        => /\ ret'.err = PasswordErr(ret'.args.password)
           /\ acct' = acct]_vars

\* C8: NewUser returns an account exactly when the name and the password
\* are 1 to 32 bytes long and hashing succeeds; otherwise it returns no
\* account and the error of the first failing check, the name's first.
C8_NewUserValidation ==
    ret.op = "NewUser" =>
        LET n == Len(ret.args.id)
            p == Len(ret.args.password)
        IN  /\ ret.err = "nil" <=>
                (n \in 1 .. 32 /\ p \in 1 .. 32 /\ ret.args.saltOk)
            /\ ret.err = "nil" <=> ret.out # NoUser
            /\ n = 0 => ret.err = "ErrUsernameEmpty"
            /\ n > 32 => ret.err = "ErrUsernameTooLong"
            /\ (n \in 1 .. 32 /\ p = 0) => ret.err = "ErrUserPasswordEmpty"
            /\ (n \in 1 .. 32 /\ p > 32) => ret.err = "ErrUserPasswordTooLong"
            /\ ret.err = "nil" => ret.out.name = ret.args.id

\* C8, witness: a name and a password of exactly 32 bytes are accepted.
C8_Witness ==
    /\ ret.op = "NewUser"
    /\ Len(ret.args.id) = 32
    /\ Len(ret.args.password) = 32
    /\ ret.err = "nil"
    /\ acct = ret.out

\* C9, as stated: the version counter of an account never decreases.
C9_VersionNeverDecreases ==
    [][(acct # NoUser /\ acct' # NoUser)
        => Version(acct') >= Version(acct)]_vars

\* C9, amended: Version, CheckVersion and a failed SetPassword leave the
\* counter alone, updateVersion and a successful SetPassword add one modulo
\* 2^w, and so the counter decreases only when SetVersion stores a smaller
\* value or an increment wraps from 2^w - 1 to 0.
C9_VersionSteps ==
    [][acct # NoUser =>
        /\ ret'.op \in {"Version", "CheckVersion", "CheckPassword"}
            => Version(acct') = Version(acct)
        /\ (ret'.op = "SetPassword" /\ ret'.err # "nil")
            => Version(acct') = Version(acct)
        /\ (ret'.op = "updateVersion"
                \/ (ret'.op = "SetPassword" /\ ret'.err = "nil"))
            => Version(acct') = (Version(acct) + 1) % CounterMod
        /\ ret'.op = "SetVersion" => Version(acct') = ret'.args
        /\ Version(acct') < Version(acct)
            => \/ ret'.op = "SetVersion"
               \/ /\ Version(acct) = CounterMod - 1
                  /\ Version(acct') = 0]_vars

\* C9, witness: an increment has wrapped the counter to 0.
C9_Witness ==
    /\ ret.op = "updateVersion"
    /\ ret.out = 0
    /\ Version(acct) = 0

(***************************************************************************)
(* Claims about the room                                                   *)
(***************************************************************************)
\* C1: the ids the counter hands out are strictly increasing in the order
\* they are handed out, so no two calls, concurrent or not, hold the same
\* id, no two entries share one, and the id of a deleted entry is not
\* handed out again.
C1_IdsStrictlyIncreasing ==
    /\ \A i, j \in DOMAIN assigned : i < j => assigned[i] < assigned[j]
    /\ \A i, j \in DOMAIN movies : i # j => movies[i].id # movies[j].id
    /\ \A u, v \in Users :
        (u # v /\ pend[u] # NoPend) => pend[u] # pend[v]
    /\ \A u \in Users, i \in DOMAIN movies :
        pend[u] # NoPend => movies[i].id # pend[u]
    /\ \A u \in Users : pend[u] # NoPend => pend[u] \notin deleted
    /\ \A i \in DOMAIN movies : movies[i].id \notin deleted

\* C1, witness: entry 1 was deleted, and the NewMovie call that followed
\* drew id 2.
C1_Witness ==
    /\ 1 \in deleted
    /\ ret.op = "AddUint64"
    /\ ret.out = 2
    /\ assigned = <<1, 2>>

\* C2: a proxied entry's view has no headers when the requester is not the
\* creator, in Movie and in every element of Movies; the creator's view
\* carries the stored headers.
C2_HeadersRedacted ==
    /\ (ret.op = "Movie" /\ ret.err = "nil")
        => /\ (ret.out.Proxy /\ ret.args.user # ret.out.Creator)
                => ret.out.Headers = NoHeaders
           /\ ret.args.user = ret.out.Creator
                => ret.out.Headers = movies[IndexOf(ret.out.Id)].base.Headers
    /\ ret.op = "Movies"
        => \A i \in DOMAIN ret.out :
            /\ (ret.out[i].Proxy /\ ret.args.user # ret.out[i].Creator)
                => ret.out[i].Headers = NoHeaders
            /\ ret.args.user = ret.out[i].Creator
                => ret.out[i].Headers = movies[i].base.Headers

\* C3: Movie and Movies leave every stored entry as it was.
C3_ReadsLeavePlaylist ==
    [][ret'.op \in {"Movie", "Movies"} => movies' = movies]_vars

\* C4: an entry has a pull key exactly when its RtmpSource flag is set.
C4_PullKeyIffRtmpSource ==
    \A i \in DOMAIN movies :
        movies[i].PullKey # NoKey <=> movies[i].base.RtmpSource

\* C5: EditMovie of an existing entry succeeds for an admin, the root user
\* and the entry's creator; for anyone else it returns the permission error
\* and leaves the playlist and the live channels as they were.
C5_EditPermission ==
    [][(ret'.op = "EditMovie" /\ IndexOf(ret'.args.id) # 0)
        => LET u == ret'.args.user
               m == movies[IndexOf(ret'.args.id)]
           IN  IF u \in Admins \/ u = rootUser \/ u = m.creator
               THEN ret'.err = "nil"
               ELSE /\ ret'.err = "ErrNotCreator"
                    /\ movies' = movies
                    /\ channels' = channels]_vars

\* C5, witness: alice was refused the edit of an entry bob created.
C5_Witness ==
    /\ ret.op = "EditMovie"
    /\ ret.err = "ErrNotCreator"
    /\ ret.args.user = "alice"
    /\ movies[IndexOf(ret.args.id)].creator = "bob"

\* C10: an operation that returns an error leaves the room as it was: when
\* a NewMovie call that nothing interleaves with fails, the movie-id
\* counter, the playlist and the live channels are what they were before
\* the call, and a failed EditMovie changes nothing either.
C10_FailureLeavesRoom ==
    [][/\ (/\ ret.op = "AddUint64"
           /\ ret'.op = "NewMovie"
           /\ ret'.args.user = ret.args.user
           /\ ret'.err # "nil")
            => /\ mid' = ret.args.before
               /\ movies' = movies
               /\ channels' = channels
       /\ (ret'.op = "EditMovie" /\ ret'.err # "nil")
            => UNCHANGED <<mid, movies, channels>>]_vars

(***************************************************************************)
(* Claims about EditMovie and the live channels                            *)
(***************************************************************************)
\* An EditMovie call has just returned nil.
Returned == ret.op = "EditMovie" /\ ret.err = "nil"

\* C11: when an EditMovie call that found RtmpSource set and was given a
\* base info with RtmpSource clear returns nil, it has called DelChannel
\* once, with the pull key the entry held when the call began, no channel
\* of that key exists, and the entry's pull key is empty.
C11_DisableReleasesChannel ==
    (Returned /\ ret.out.pre.RtmpSource /\ ~ret.out.movie.RtmpSource)
        => /\ ret.out.del = {ret.out.key}
           /\ tally.releases[ret.args.id] >= 1
           /\ ret.out.key \notin channels
           /\ Entry(ret.args.id).PullKey = NoKey
           /\ ~Entry(ret.args.id).base.RtmpSource

\* C11, witness: an edit has disabled RtmpSource on an entry that held the
\* key of a live channel, and the channel is gone.
C11_Witness ==
    /\ Returned
    /\ ret.out.pre.RtmpSource
    /\ ~ret.out.movie.RtmpSource
    /\ ret.out.key # NoKey
    /\ ret.out.del = {ret.out.key}
    /\ ret.out.key \notin channels
    /\ Entry(ret.args.id).PullKey = NoKey

\* C12: when an EditMovie call that found Proxy set and was given a base
\* info with Proxy clear returns nil, the entry's pull key is empty,
\* whatever RtmpSource was and becomes.
C12_ProxyOffClearsKey ==
    (Returned /\ ret.out.pre.Proxy /\ ~ret.out.movie.Proxy)
        => Entry(ret.args.id).PullKey = NoKey

\* C12, witness: an edit has turned Proxy off on an entry that held a key
\* and whose RtmpSource flag was set and stays set.
C12_Witness ==
    /\ Returned
    /\ ret.out.pre.Proxy
    /\ ~ret.out.movie.Proxy
    /\ ret.out.pre.RtmpSource
    /\ ret.out.movie.RtmpSource
    /\ ret.out.key # NoKey
    /\ Entry(ret.args.id).PullKey = NoKey

\* C13: when no EditMovie call is in flight, EditMovie has made, for every
\* entry, as many calls to allocate a live channel as the entry's
\* RtmpSource flag went from false to true, and as many calls to delete a
\* channel as the flag went from true to false.  (EditRaceSpec deletes no
\* entry, so no deletion adds a release.)
C13_CallsMatchTransitions ==
    (\A u \in Users : edit[u].pc = "idle")
        => \A id \in 1 .. MaxMid :
            /\ tally.allocs[id] = tally.ups[id]
            /\ tally.releases[id] = tally.downs[id]

\* C14: when an EditMovie call that sets RtmpSource on an entry whose flag
\* an earlier edit had turned from true to false returns nil, the entry's
\* pull key is not empty and is not the key the entry held before that
\* earlier edit.
C14_ReenableGivesNewKey ==
    (/\ Returned
     /\ ~ret.out.pre.RtmpSource
     /\ ret.out.movie.RtmpSource
     /\ tally.downs[ret.args.id] > 0)
        => /\ Entry(ret.args.id).PullKey # NoKey
           /\ Entry(ret.args.id).PullKey # tally.offKey[ret.args.id]

(***************************************************************************)
(* Claims about the playlist's order                                       *)
(***************************************************************************)
\* C15: right after a NewMovie call returned an entry, the entry is the
\* last element of the playlist and GetMovie finds it by its id; a Movies
\* call that follows returns its view as the last element, and a Movie
\* call with its id that follows returns its view.
C15_NewMovieIsLast ==
    /\ [](ret.op = "NewMovie" /\ ret.err = "nil"
            => /\ movies # <<>>
               /\ movies[Len(movies)] = ret.out
               /\ GetMovie(ret.out.id).err = "nil"
               /\ movies[GetMovie(ret.out.id).i] = ret.out)
    /\ [][(ret.op = "NewMovie" /\ ret.err = "nil")
            => /\ ret'.op = "Movies"
                    => /\ ret'.out # <<>>
                       /\ ret'.out[Len(ret'.out)].Id = ret.out.id
                       /\ ret'.out[Len(ret'.out)].Creator = ret.args.user
               /\ (ret'.op = "Movie" /\ ret'.args.id = ret.out.id)
                    => /\ ret'.err = "nil"
                       /\ ret'.out.Id = ret.out.id]_vars

\* C15, witness: a NewMovie call into a playlist that already held an
\* entry has returned the entry that is now second and last.
C15_Witness ==
    /\ ret.op = "NewMovie"
    /\ ret.err = "nil"
    /\ Len(movies) = 2
    /\ movies[2] = ret.out
    /\ movies[1].id # ret.out.id

\* The position of an id in the history of insertions, 0 when absent.
InsertedAt(id) ==
    IF \E i \in DOMAIN inserted : inserted[i] = id
    THEN CHOOSE i \in DOMAIN inserted : inserted[i] = id
    ELSE 0

\* C16: the views a Movies call returns are those of exactly the entries
\* the playlist held, in the playlist's order, at the instant the call
\* took the read lock, and equally at the instant it returns; no id
\* occurs twice, none is the id of an entry removed before the traversal
\* began, and the views are in the order their entries were inserted.
C16_ListIsSnapshot ==
    ret.op = "Movies" =>
        LET ids == [i \in DOMAIN ret.out |-> ret.out[i].Id]
        IN  /\ ids = ret.args.snap
            /\ ids = Ids(movies)
            /\ \A i, j \in DOMAIN ids : i # j => ids[i] # ids[j]
            /\ \A i \in DOMAIN ids : ids[i] \notin ret.args.gone
            /\ \A i \in DOMAIN ids : InsertedAt(ids[i]) # 0
            /\ \A i, j \in DOMAIN ids :
                    i < j => InsertedAt(ids[i]) < InsertedAt(ids[j])

\* C16, witness: a Movies call has returned two views, the entry with the
\* larger id first because it was inserted first, while another Movies
\* call is still traversing.
C16_Witness ==
    /\ ret.op = "Movies"
    /\ Len(ret.out) = 2
    /\ ret.out[1].Id > ret.out[2].Id
    /\ inserted = <<2, 1>>
    /\ lock # {}

(***************************************************************************)
(* Claims about the hub                                                    *)
(***************************************************************************)
\* The connections some call in flight holds to close them.
Taken == { t.conn : t \in hub.taken }

\* The connections registered under a name so far.
Registered(u) == { hub.log[u][i] : i \in DOMAIN hub.log[u] }

\* The connections of a name that are neither closed nor held to be closed.
Live(u) == { c \in Registered(u) : c \notin hub.closed /\ c \notin Taken }

\* C17: per account name, at most one connection that was registered is
\* neither closed nor held by a call about to close it, and it is the one
\* in the hub; the hub holds no connection or the one registered last
\* under the name; so once the calls in flight have returned, every
\* connection registered earlier is closed and, of two registered, only
\* the second is in the hub.
C17_OneConnectionPerName ==
    \A u \in Users :
        /\ Cardinality(Live(u)) <= 1
        /\ Live(u) = IF hub.clients[u] = NoConn THEN {} ELSE {hub.clients[u]}
        /\ hub.clients[u] # NoConn
            => hub.clients[u] = hub.log[u][Len(hub.log[u])]
        /\ hub.taken = {}
            => \A i \in DOMAIN hub.log[u] :
                  i < Len(hub.log[u]) => hub.log[u][i] \in hub.closed

\* C17, witness: two connections were registered under one name and the
\* calls have returned; the hub holds the second, which is open, and the
\* first is closed.
C17_Witness ==
    /\ ret.op = "RegClient"
    /\ hub.taken = {}
    /\ Len(hub.log[ret.args.user]) = 2
    /\ hub.clients[ret.args.user] = hub.log[ret.args.user][2]
    /\ hub.log[ret.args.user][1] \in hub.closed
    /\ hub.log[ret.args.user][2] \notin hub.closed

\* C18: a Broadcast that returns has attempted a send on every connection
\* that was registered when it was called, whichever sends failed; a send
\* that fails is recorded and takes no other connection off the list of
\* those still to be sent to; the call returns nil when no send failed and
\* otherwise an aggregate of exactly the failures; and no step of a
\* Broadcast changes the hub's registrations, the playlist, the movie-id
\* counter or the live channels.
C18_BroadcastReachesAll ==
    /\ [](ret.op = "Broadcast"
            => /\ ret.args.sent = ret.args.targets
               /\ ret.out \subseteq ret.args.targets
               /\ ret.err = "nil" <=> ret.out = {})
    /\ [][(ret'.op = "Broadcast:send" /\ ret'.err # "nil")
            => /\ ret'.args.conn \in bcast'[ret'.args.user].failed
               /\ ToSend(bcast'[ret'.args.user])
                    = ToSend(bcast[ret'.args.user]) \ {ret'.args.conn}]_vars
    /\ [][ret'.op \in {"Broadcast:begin", "Broadcast:send", "Broadcast"}
            => UNCHANGED <<mid, movies, channels, hub>>]_vars

\* C18, witness: a Broadcast to three registered connections has returned
\* the failure of one of them, a connection that is not closed, and a send
\* was attempted on all three.
C18_Witness ==
    /\ ret.op = "Broadcast"
    /\ Cardinality(ret.args.targets) = 3
    /\ ret.args.sent = ret.args.targets
    /\ Cardinality(ret.out) = 1
    /\ ret.out \cap hub.closed = {}
    /\ ret.err = "ErrSend"

(***************************************************************************)
(* Claims about the locks                                                  *)
(***************************************************************************)
\* The locks a call holds.
Holds(u) == { h[1] : h \in lk[u].held }

\* The call of u waits for a lock.
Waits(u) ==
    /\ lk[u] # NoCall
    /\ lk[u].at <= Len(Script(lk[u].op))
    /\ NextEvent(u).do = "acquire"
    /\ ~Grantable(u, NextEvent(u).lock, NextEvent(u).mode)

\* C19: no call holds the playlist lock and the room's lock at once; a
\* call that acquires the room's lock holds no lock at that moment; a
\* call returns with no lock held; and whenever a call waits for a lock,
\* a call that holds that lock is not waiting itself, so some holder can
\* always run on to its release: no state is a deadlock.
C19_LockOrder ==
    /\ [](\A u \in Users :
            /\ ~({"playlist", "room"} \subseteq Holds(u))
            /\ lk[u] = NoCall => Holds(u) = {}
            /\ Waits(u)
                => \E v \in Users \ {u} :
                      /\ NextEvent(u).lock \in Holds(v)
                      /\ ~Waits(v))
    /\ [][(ret'.op = "acquire" /\ ret'.args.lock = "room")
            => ret'.out = {}]_vars
    /\ [][ret'.op = "return" => ret'.out = {}]_vars

\* C19, witness: one account waits to insert into the playlist while
\* another reads it, and the third holds the room's lock.
C19_Witness ==
    \E u, v, w \in Users :
        /\ Waits(u)
        /\ lk[u].op = "NewMovie"
        /\ lk[v].op = "Movies"
        /\ Holds(v) = {"playlist"}
        /\ lk[w].op = "RegClient"
        /\ Holds(w) = {"room"}

(***************************************************************************)
(* Claims about concurrent bumps                                           *)
(***************************************************************************)
\* The goroutines whose increment has taken place.
Bumped == { t \in Bumpers : bump.th[t].pc \in {"ret", "done"}
                            /\ bump.th[t].err = "nil" }

\* C20: whatever the interleaving, the version is the one at the first
\* call plus the number of increments made so far, modulo the width; the
\* values the increments returned are those of the steps in between, one
\* each, so as long as there are no more of them than the counter has
\* values they are pairwise distinct; and each increment returns the
\* counter's value right after it.
C20_LinearizableBump ==
    /\ []((\E t \in Bumpers : bump.th[t] # NoBump) =>
            /\ Version(acct) = (bump.base + Cardinality(Bumped)) % CounterMod
            /\ { bump.th[t].out : t \in Bumped }
                 = { (bump.base + i) % CounterMod :
                       i \in 1 .. Cardinality(Bumped) }
            /\ Cardinality(Bumped) <= CounterMod
                => \A s, t \in Bumped :
                      s # t => bump.th[s].out # bump.th[t].out)
    /\ [][ret'.op = "add"
            => /\ ret'.out = Version(acct')
               /\ ret'.out = (Version(acct) + 1) % CounterMod]_vars

\* C20, witness: every goroutine has returned from a bump, one that went
\* through SetPassword and one direct among them, and the counter has
\* wrapped on the way.
C20_Witness ==
    /\ acct # NoUser
    /\ Bumped = Bumpers
    /\ \A t \in Bumpers : bump.th[t].pc = "done"
    /\ \E s, t \in Bumpers :
        /\ bump.th[s].op = "SetPassword"
        /\ bump.th[t].op = "updateVersion"
    /\ Version(acct) < bump.base

(***************************************************************************)
(* Claims about the last activity                                          *)
(***************************************************************************)
\* C21: the stores of lastAct form a chain: each UpdateLastAct stores the
\* time it read, which is not in the future, and returns the value of the
\* store just before its own, so each store is returned by exactly the
\* one swap that follows it and by no other; lastAct is the value of the
\* last store, and that is what LastAct returns.
C21_SwapChain ==
    /\ [](acct # NoUser =>
            /\ \A i \in 2 .. Len(act.log) :
                  /\ act.log[i].returned = act.log[i - 1].stored
                  /\ act.log[i].stored <= act.now
            /\ act.lastAct = act.log[Len(act.log)].stored
            /\ ret.op = "LastAct" => ret.out = act.log[Len(act.log)].stored
            /\ ret.op = "UpdateLastAct"
                => /\ ret.out = act.log[Len(act.log)].returned
                   /\ ret.out = act.log[Len(act.log) - 1].stored)
    /\ [][ret'.op = "UpdateLastAct"
            => /\ ret'.out = act.lastAct
               /\ act'.lastAct = act.th[CHOOSE t \in Bumpers :
                                         act'.th[t] # act.th[t]].now]_vars

\* C21, witness: two calls read the clock at different times and swapped
\* in the opposite order, so the later time was stored first and returned
\* by the other call.
C21_Witness ==
    /\ acct # NoUser
    /\ Len(act.log) = 3
    /\ act.log[3].stored < act.log[2].stored
    /\ ret.op = "UpdateLastAct"
    /\ ret.out = act.log[2].stored

(***************************************************************************)
(* Claims about the version check                                          *)
(***************************************************************************)
\* C22: CheckVersion returns true exactly when its argument is the
\* current version; the version from before a successful SetPassword or a
\* bump does not pass the check afterwards; and the check of v that
\* follows SetVersion(v) directly returns true.
C22_CheckVersionExact ==
    /\ [][ret'.op = "CheckVersion"
            => ret'.out = (ret'.args = Version(acct))]_vars
    /\ [][(ret'.op = "updateVersion"
             \/ (ret'.op = "SetPassword" /\ ret'.err = "nil"))
            => ~CheckVersion(acct', Version(acct))]_vars
    /\ [][ret'.op = "SetVersion" => CheckVersion(acct', ret'.args)]_vars
    /\ [][(ret.op = "SetVersion" /\ ret'.op = "CheckVersion"
             /\ ret'.args = ret.args)
            => ret'.out = TRUE]_vars
    /\ [][(ret.op = "updateVersion" /\ ret'.op = "CheckVersion"
             /\ ret'.args = (ret.out + CounterMod - 1) % CounterMod)
            => ret'.out = FALSE]_vars

\* C22, witness: with the version at 0, as after the bump that wraps the
\* counter, a check of the value before it has returned false although
\* the argument is the larger number.
C22_Witness ==
    /\ ret.op = "CheckVersion"
    /\ ret.out = FALSE
    /\ Version(acct) = 0
    /\ ret.args = CounterMod - 1

(***************************************************************************)
(* Claims about the creation options                                       *)
(***************************************************************************)
\* The options of one kind in an option list, in order.
OfKind(conf, kind) == SelectSeq(conf, LAMBDA c : c.kind = kind)

\* C23: the account NewUser returns has the version of the last
\* WithUserVersion option whatever its value, a seed only when there is
\* none, and the admin flag of the last WithUserAdmin option, FALSE when
\* there is none.
C23_OptionsDecide ==
    [][(ret'.op = "NewUser" /\ ret'.err = "nil")
        => LET versions == OfKind(ret'.args.conf, "version")
               admins == OfKind(ret'.args.conf, "admin")
           IN  /\ versions # <<>>
                   => Version(acct') = versions[Len(versions)].version
               /\ acct'.admin = IF admins = <<>> THEN FALSE
                                 ELSE admins[Len(admins)].admin]_vars

(***************************************************************************)
(* Claims about lookups that fail                                          *)
(***************************************************************************)
\* C24: a Movie or EditMovie call with an id the playlist does not hold,
\* one never assigned or one deleted, returns the not-found error and
\* nothing else, and leaves the playlist and the channels as they were.
C24_NotFound ==
    [][(ret'.op \in {"Movie", "EditMovie"} /\ IndexOf(ret'.args.id) = 0)
        => /\ ret'.err = "ErrNotFound"
           /\ ret'.out = Nil
           /\ movies' = movies
           /\ channels' = channels]_vars

\* C24, witness: EditMovie was called with the id of a deleted entry
\* while the playlist holds another entry with a live channel.
C24_Witness ==
    /\ ret.op = "EditMovie"
    /\ ret.err = "ErrNotFound"
    /\ ret.args.id \in deleted
    /\ movies # <<>>
    /\ channels # {}

(***************************************************************************)
(* Claims about CloseHub                                                   *)
(***************************************************************************)
\* C25: CloseHub takes the connection registered under the name out of the
\* hub, which then holds none under the name, and closes it; when none is
\* registered it changes nothing; a connection taken out is held by one
\* call alone, is not closed yet and is no longer in the hub, and the
\* Close that follows is the first and only one on it, whatever other
\* CloseHub calls run at the same time.
C25_CloseHubOnce ==
    /\ [](\A s, t \in hub.taken :
            /\ s.conn = t.conn => s = t
            /\ t.conn \notin hub.closed
            /\ \A u \in Users : hub.clients[u] # t.conn)
    /\ [][ret'.op = "CloseHub:LoadAndDelete"
            => LET u == ret'.args.user
               IN  /\ hub.clients[u] # NoConn
                   /\ ret'.out = hub.clients[u]
                   /\ hub'.clients = [hub.clients EXCEPT ![u] = NoConn]
                   /\ hub'.taken = hub.taken
                          \cup {[conn |-> hub.clients[u], by |-> NoConn]}
                   /\ hub'.closed = hub.closed]_vars
    /\ [][(ret'.op = "CloseHub" /\ hub'.taken = hub.taken)
            => /\ hub.clients[ret'.args.user] = NoConn
               /\ hub' = hub]_vars
    /\ [][(ret'.op = "CloseHub" /\ hub'.taken # hub.taken)
            => \E t \in hub.taken :
                  /\ t.by = NoConn
                  /\ t.conn \in Registered(ret'.args.user)
                  /\ t.conn \notin hub.closed
                  /\ hub'.taken = hub.taken \ {t}
                  /\ hub'.closed = hub.closed \cup {t.conn}
                  /\ hub'.clients = hub.clients]_vars

\* C25, witness: of two CloseHub calls for one name at the same time, one
\* has taken the connection out and not closed it yet, and the other has
\* found none and returned.
C25_Witness ==
    /\ ret.op = "CloseHub"
    /\ hub.closed = {}
    /\ hub.clients[ret.args.user] = NoConn
    /\ \E t \in hub.taken :
        /\ t.by = NoConn
        /\ t.conn \in Registered(ret.args.user)

(***************************************************************************)
(* Claims about reads during an edit                                       *)
(***************************************************************************)
\* A view of an entry as it is between edits: a pull key only with the
\* RtmpSource flag.
Whole(view) == view.PullKey # NoKey => view.RtmpSource

\* C26: every view Movie returns and every view in the list Movies
\* returns shows an entry as it was before an edit or as it is after it,
\* never the new base info with the old pull key: no view has a pull key
\* without the RtmpSource flag.
C26_ReadsSeeWholeEdits ==
    /\ (ret.op = "Movie" /\ ret.err = "nil") => Whole(ret.out)
    /\ ret.op = "Movies" => \A i \in DOMAIN ret.out : Whole(ret.out[i])

(***************************************************************************)
(* Claims about the lock an access is made under                           *)
(***************************************************************************)
\* C27, the part about writes: a call that writes a field of a stored
\* entry holds the playlist lock for writing at that moment.
C27_AccessUnderLock ==
    [][ret'.op = "write" => <<"playlist", "W">> \in ret'.out]_vars

(***************************************************************************)
(* Claims about discarded pull keys                                        *)
(***************************************************************************)
\* C28: an EditMovie call that found a pull key on the entry and left the
\* entry without one has released the channel of that key; and between
\* calls every allocated channel is the pull key of some entry.
C28_NoKeyDiscardedUnreleased ==
    /\ (Returned /\ ret.out.key # NoKey
           /\ Entry(ret.args.id).PullKey = NoKey)
        => /\ ret.out.key \in ret.out.del
           /\ ret.out.key \notin channels
    /\ Quiet => \A k \in channels :
                    \E i \in DOMAIN movies : movies[i].PullKey = k

(***************************************************************************)
(* Claims about SetPassword and its observers                              *)
(***************************************************************************)
\* C29: the stored credential never changes in a step that leaves the
\* version as it was, so that no observer finds the new password accepted
\* and the version still the old one; and once the concurrent SetPassword
\* calls have all returned nil, the stored hash is that of the password
\* of one of them and the version has advanced by their number.
C29_SetPasswordAtomic ==
    /\ [][(acct # NoUser /\ acct'.password # acct.password)
            => Version(acct') # Version(acct)]_vars
    /\ []((\A t \in Bumpers :
              /\ bump.th[t].pc = "done"
              /\ bump.th[t].op = "SetPassword"
              /\ bump.th[t].err = "nil")
           => /\ Version(acct) = (bump.base + MaxBumps) % CounterMod
              /\ \E t \in Bumpers :
                    CheckPassword(acct, bump.th[t].password))

(***************************************************************************)
(* Claims about what EditMovie leaves alone                                *)
(***************************************************************************)
\* The steps of an EditMovie call.
EditSteps ==
    {"EditMovie", "EditMovie:GetMovie", "EditMovie:pre",
     "EditMovie:BaseMovieInfo", "EditMovie:DelChannel", "EditMovie:case"}

\* What an edit may not change of an entry.
Fixed(m) == [id |-> m.id, CreatedAt |-> m.CreatedAt, creator |-> m.creator]

\* C30: an EditMovie call that returns nil leaves the entry with exactly
\* the base info it was given; and no step of an EditMovie call changes
\* the number or the order of the entries, the id, the creation time or
\* the creator of any, anything of an entry other than the one edited,
\* the movie-id counter or the account.
C30_EditFrame ==
    /\ [](Returned => Entry(ret.args.id).base = ret.out.movie)
    /\ [][ret'.op \in EditSteps
            => /\ DOMAIN movies' = DOMAIN movies
               /\ \A i \in DOMAIN movies :
                     /\ Fixed(movies'[i]) = Fixed(movies[i])
                     /\ movies[i].id # ret'.args.id
                         => movies'[i] = movies[i]
               /\ mid' = mid
               /\ acct' = acct]_vars

\* C30, witness: the first of two entries was given another URL, other
\* flags and headers by an edit that returned nil.
C30_Witness ==
    /\ Returned
    /\ Len(movies) = 2
    /\ movies[1].id = ret.args.id
    /\ ret.out.pre.Url # ret.out.movie.Url
    /\ ret.out.pre.Headers # ret.out.movie.Headers
    /\ movies[1].base = ret.out.movie

(***************************************************************************)
(* Claims about a failing hash                                             *)
(***************************************************************************)
\* C31: when bcrypt fails, for want of a salt or because the password is
\* longer than it takes, a NewUser call that got as far as hashing
\* returns bcrypt's error and no account, and a SetPassword call returns
\* bcrypt's error and leaves the account, its hash and its version
\* included, as it was.
C31_HashFailure ==
    /\ [][(ret'.op = "NewUser"
             /\ NameErr(ret'.args.id) = "nil"
             /\ PasswordErr(ret'.args.password) = "nil"
             /\ GenerateFromPassword(ret'.args.password,
                                     ret'.args.saltOk).err # "nil")
            => /\ ret'.err = GenerateFromPassword(ret'.args.password,
                                                  ret'.args.saltOk).err
               /\ ret'.out = NoUser
               /\ acct' = NoUser]_vars
    /\ [][(ret'.op = "SetPassword"
             /\ GenerateFromPassword(ret'.args.password,
                                     ret'.args.saltOk).err # "nil")
            => /\ ret'.err = GenerateFromPassword(ret'.args.password,
                                                  ret'.args.saltOk).err
               /\ acct' = acct
               /\ plain' = plain]_vars
    /\ [][(ret'.op = "SetPassword" /\ ret'.err # "nil") => acct' = acct]_vars

\* C31, witness: SetPassword was called with a password the account does
\* not have, the salt could not be read, and the call returned that
\* error; the account still takes the old password and not the new one.
C31_Witness ==
    /\ ret.op = "SetPassword"
    /\ ret.err = "ErrSalt"
    /\ ret.args.password # ret.args.old
    /\ CheckPassword(acct, ret.args.old)
    /\ ~CheckPassword(acct, ret.args.password)

(***************************************************************************)
(* Claims about the creator of an entry                                    *)
(***************************************************************************)
\* C32: the entry a NewMovie call returns and appends has the id the
\* caller drew and the calling account as its creator, whatever creator
\* option the caller passed; and the views Movies returns name the
\* creator the entries have.
C32_CreatorIsCaller ==
    /\ [][(ret'.op = "NewMovie" /\ ret'.err = "nil")
            => /\ ret'.out.creator = ret'.args.user
               /\ movies'[Len(movies')].creator = ret'.args.user
               /\ pend[ret'.args.user] = ret'.out.id]_vars
    /\ [](ret.op = "Movies"
            => \A i \in DOMAIN ret.out :
                  ret.out[i].Creator = movies[i].creator)

\* C32, witness: alice called NewMovie with WithCreator(bob) and the entry
\* appended has alice as its creator.
C32_Witness ==
    /\ ret.op = "NewMovie"
    /\ ret.err = "nil"
    /\ ret.args.user = "alice"
    /\ ret.args.conf = <<WithCreator("bob")>>
    /\ movies[Len(movies)].creator = "alice"

(***************************************************************************)
(* Claims about the sender of a broadcast                                  *)
(***************************************************************************)
\* C33: a broadcast made through an account's Broadcast carries that
\* account's name as sender from the call to the return, whatever sender
\* option the caller passed, and the caller's options are passed on in
\* front of it.
C33_SenderIsCaller ==
    /\ \A u \in Users :
          bcast[u].pc = "send"
            => /\ SenderOf(bcast[u].conf) = u
               /\ bcast[u].conf[Len(bcast[u].conf)] = WithSender(u)
               /\ SubSeq(bcast[u].conf, 1, Len(bcast[u].conf) - 1)
                     \in CastConfs
    /\ ret.op = "Broadcast" => SenderOf(ret.args.conf) = ret.args.user

\* C33, witness: alice's Broadcast, called with WithSender(bob), has
\* returned after sending to a connection, and carried alice's name.
C33_Witness ==
    /\ ret.op = "Broadcast"
    /\ ret.args.user = "alice"
    /\ ret.args.conf[1] = WithSender("bob")
    /\ ret.args.sent # {}
    /\ SenderOf(ret.args.conf) = "alice"

====
